---- MODULE Spec2Model ----
(***************************************************************************)
(* A model of cctz: the zone registry (time_zone_impl.cc), the zoneinfo    *)
(* lookups (cctz_info.cc) and the civil-time arithmetic (civil_time.h).    *)
(* Each part has its own specification; the variables of the other parts   *)
(* stay at their initial values.                                           *)
(***************************************************************************)
EXTENDS Integers, Sequences, FiniteSets, TLC

VARIABLES
  \* ---- zone registry (time_zone_impl.cc) ----
  time_zone_map,    \* name -> Impl handle (0 is nullptr); the std::map's contents
  map_alloc,        \* time_zone_map != nullptr
  utc_zone,         \* the utc_zone pointer (0 is nullptr)
  load_utc_once,    \* std::once_flag: "init", "running" or "done"
  time_zone_mutex,  \* 0 when free, else the thread holding it
  impl_name,        \* the heap of Impl objects: impl_name[h] is Impl h's name_
  stack,            \* per thread: the frames of the calls it is inside
  calls,            \* top-level calls started so far
  results,          \* what the completed load calls returned
  derefs,           \* what Impl::get() dereferenced
  loads,            \* per name: invocations of TimeZoneIf::Load
  failed,           \* names whose TimeZoneIf::Load returned nullptr
  fs,               \* names whose zoneinfo file currently loads
  fopens,           \* the paths fopen() was called with
  \* ---- civil time (civil_time.h) ----
  cv,               \* the civil_time object's fields f_
  tag,              \* its alignment: the template argument T
  op,               \* the operation applied last
  arg,              \* that operation's int argument n
  prev,             \* f_ before that operation
  in6,              \* the six ints handed to the constructor
  diff,             \* the int a difference returned
  ub,               \* evaluating the operation overflowed an int
  nops,             \* arithmetic operations applied so far
  \* ---- zoneinfo (cctz_info.cc) ----
  tzfile,           \* the data block of the zoneinfo file handed to Load
  tzhead,           \* that file's headers and what follows its data block
  zstate,           \* "new", "loaded", or "failed" when Load returned false
  transition_types_,
  transitions_,
  default_transition_type_,
  local_time_hint_,
  time_local_hint_,
  extended_,
  future_,          \* the transitions Load generated from future_spec_:
                    \* the code's transitions_[hdr.timecnt ..]
  zop,              \* the TimeZoneInfo operation applied last
  q_tp,             \* the instant BreakTime was asked about
  bd,               \* the Breakdown it returned
  q_civil,          \* the civil fields MakeTimeInfo was asked about
  ti,               \* the TimeInfo it returned
  nq,               \* queries made so far
  \* ---- POSIX-TZ parser (time_zone_if.cc) ----
  posix_spec,       \* the characters handed to ParsePosixSpec
  parsed,           \* ParsePosixSpec has returned
  posix,            \* what it returned and what it left in *res
  \* ---- Format and Parse (cctz.h) ----
  fop,              \* the operation applied last
  fmt_tp,           \* the instant Format was given
  fmt_text,         \* the characters it returned
  parse_format,     \* the format Parse was given
  parse_input,      \* the characters Parse was given
  tpp_before,       \* the caller's *tpp when Parse was called
  tpp,              \* the caller's *tpp
  parse_ok          \* what Parse returned

regVars == <<time_zone_map, map_alloc, utc_zone, load_utc_once, time_zone_mutex,
             impl_name, stack, calls, results, derefs, loads, failed, fs,
             fopens>>

civVars == <<cv, tag, op, arg, prev, in6, diff, ub, nops>>

zoneVars == <<tzfile, tzhead, zstate, transition_types_, transitions_,
              default_transition_type_, local_time_hint_, time_local_hint_,
              extended_, future_, zop, q_tp, bd, q_civil, ti, nq,
              posix_spec, parsed, posix, fop, fmt_tp, fmt_text, parse_format,
              parse_input, tpp_before, tpp, parse_ok>>

fmtVars == <<fop, fmt_tp, fmt_text, parse_format, parse_input, tpp_before,
             tpp, parse_ok>>

vars == <<regVars, civVars, zoneVars>>

----------------------------------------------------------------------------
(* C++ int arithmetic (civil_time.h computes in int).  The checker's own   *)
(* integers are 32 bits wide, so int is modelled IntBits wide: the code's   *)
(* structure is kept, only its limits move.  Signed overflow is undefined   *)
(* behaviour: the overflowing expression has the value Undef, which every   *)
(* later operation propagates.                                              *)
IntBits == 24
IntMax == 2^(IntBits - 1) - 1
IntMin == -(2^(IntBits - 1))
Undef == 2^(IntBits + 1)

Abs(a) == IF a < 0 THEN -a ELSE a
Chk(r) == IF r < IntMin \/ r > IntMax THEN Undef ELSE r
CAdd(a, b) == IF a = Undef \/ b = Undef THEN Undef ELSE Chk(a + b)
CSub(a, b) == IF a = Undef \/ b = Undef THEN Undef ELSE Chk(a - b)
CNeg(a) == CSub(0, a)
CMul(a, b) ==
  IF a = Undef \/ b = Undef THEN Undef
  ELSE IF b # 0 /\ Abs(a) > (IntMax + 1) \div Abs(b) THEN Undef
  ELSE Chk(a * b)
\* "/" and "%" of C++11 truncate toward zero; every divisor here is a
\* positive literal.
CDiv(a, b) ==
  IF a = Undef THEN Undef
  ELSE IF a >= 0 THEN a \div b ELSE -((-a) \div b)
CRem(a, b) == IF a = Undef THEN Undef ELSE a - b * CDiv(a, b)
B2I(b) == IF b THEN 1 ELSE 0

----------------------------------------------------------------------------
(* civil_time.h: fields, normalization, step, align, difference            *)

Tags == {"second", "minute", "hour", "day", "month", "year"}

Fields(y, m, d, hh, mm, ss) ==
  [y |-> y, m |-> m, d |-> d, hh |-> hh, mm |-> mm, ss |-> ss]

\* The result of a computation that overflowed.
UndefFields == Fields(Undef, Undef, Undef, Undef, Undef, Undef)
IsUndefFields(f) ==
  Undef \in {f.y, f.m, f.d, f.hh, f.mm, f.ss}

\* impl::is_leap_year
is_leap_year(y) ==
  CRem(y, 4) = 0 /\ (CRem(y, 100) # 0 \/ CRem(y, 400) = 0)

\* impl::year_index
year_index(y, m) ==
  CRem(CAdd(CRem(CAdd(y, B2I(m > 2)), 400), 400), 400)

\* impl::days_per_century
days_per_century(y, m) ==
  LET yi == year_index(y, m)
  IN IF yi = Undef THEN Undef ELSE 36524 + B2I(yi = 0 \/ yi > 300)

\* impl::days_per_4years; k_days_per_4years[] is 0 at the indices whose
\* four years hold a non-leap century year, and 1 elsewhere.
Bad_k_days_per_4years(yi) == 1
k_days_per_4years(yi) ==
  IF yi \in (97..100) \cup (197..200) \cup (297..300) THEN 0 ELSE 1
days_per_4years(y, m) ==
  LET yi == year_index(y, m)
  IN IF yi = Undef THEN Undef ELSE 1460 + k_days_per_4years(yi)

\* impl::days_per_year
days_per_year(y, m) ==
  LET y1 == CAdd(y, B2I(m > 2))
  IN IF y1 = Undef THEN Undef ELSE IF is_leap_year(y1) THEN 366 ELSE 365

\* impl::days_per_month
k_days_per_month == <<31, 28, 31, 30, 31, 30, 31, 31, 30, 31, 30, 31>>
days_per_month(y, m) ==
  IF y = Undef THEN Undef
  ELSE k_days_per_month[m] + B2I(m = 2 /\ is_leap_year(y))

\* impl::n_day, lines 458-463: the month loop and the result
RECURSIVE n_day_months(_, _, _, _, _, _)
n_day_months(y, m, d, hh, mm, ss) ==
  LET n == days_per_month(y, m)
  IN IF n = Undef THEN UndefFields
     ELSE IF d > n
       THEN IF m = 12 THEN n_day_months(CAdd(y, 1), 1, d - n, hh, mm, ss)
                      ELSE n_day_months(y, m + 1, d - n, hh, mm, ss)
     ELSE Fields(y, m, d, hh, mm, ss)

\* impl::n_day, lines 453-457: the year loop
RECURSIVE n_day_years(_, _, _, _, _, _)
n_day_years(y, m, d, hh, mm, ss) ==
  LET n == days_per_year(y, m)
  IN IF n = Undef THEN UndefFields
     ELSE IF d > n THEN n_day_years(CAdd(y, 1), m, d - n, hh, mm, ss)
     ELSE n_day_months(y, m, d, hh, mm, ss)

\* impl::n_day, lines 448-452: the 4-year loop
RECURSIVE n_day_4years(_, _, _, _, _, _)
n_day_4years(y, m, d, hh, mm, ss) ==
  LET n == days_per_4years(y, m)
  IN IF n = Undef THEN UndefFields
     ELSE IF d > n THEN n_day_4years(CAdd(y, 4), m, d - n, hh, mm, ss)
     ELSE n_day_years(y, m, d, hh, mm, ss)

\* impl::n_day, lines 443-447: the century loop
RECURSIVE n_day_centuries(_, _, _, _, _, _)
n_day_centuries(y, m, d, hh, mm, ss) ==
  LET n == days_per_century(y, m)
  IN IF n = Undef THEN UndefFields
     ELSE IF d > n THEN n_day_centuries(CAdd(y, 100), m, d - n, hh, mm, ss)
     ELSE n_day_4years(y, m, d, hh, mm, ss)

\* impl::n_day, lines 439-442
n_day_d(y, m, d, hh, mm, ss) ==
  IF d <= 0 THEN n_day_centuries(CSub(y, 400), m, d + 146097, hh, mm, ss)
  ELSE n_day_centuries(y, m, d, hh, mm, ss)

\* impl::n_day, lines 433-438
n_day_c(y, m, d, c, hh, mm, ss) ==
  IF c < 0
    THEN n_day_d(CAdd(CSub(y, 400), CMul(CDiv(d, 146097), 400)), m,
                 CRem(d, 146097) + (c + 146097), hh, mm, ss)
    ELSE n_day_d(CAdd(y, CMul(CDiv(d, 146097), 400)), m,
                 CRem(d, 146097) + c, hh, mm, ss)

\* impl::n_day
n_day(y, m, d, c, hh, mm, ss) ==
  IF Undef \in {y, m, d, c, hh, mm, ss} THEN UndefFields
  ELSE n_day_c(CAdd(y, CMul(CDiv(c, 146097), 400)), m, d,
               CRem(c, 146097), hh, mm, ss)

\* impl::n_mon
n_mon(y, m, d, cd, hh, mm, ss) ==
  IF Undef \in {y, m, d, cd, hh, mm, ss} THEN UndefFields
  ELSE
    LET y1 == CAdd(y, CDiv(m, 12))
        m1 == CRem(m, 12)
        y2 == IF m1 <= 0 THEN CSub(y1, 1) ELSE y1
        m2 == IF m1 <= 0 THEN m1 + 12 ELSE m1
    IN n_day(y2, m2, d, cd, hh, mm, ss)

\* impl::n_hour
n_hour(y, m, d, c, hh, mm, ss) ==
  IF Undef \in {y, m, d, c, hh, mm, ss} THEN UndefFields
  ELSE
    LET c1 == CAdd(c, CDiv(hh, 24))
        h1 == CRem(hh, 24)
        c2 == IF h1 < 0 THEN CSub(c1, 1) ELSE c1
        h2 == IF h1 < 0 THEN h1 + 24 ELSE h1
    IN n_mon(y, m, d, c2, h2, mm, ss)

\* impl::n_min
n_min(y, m, d, hh, c, mm, ss) ==
  IF Undef \in {y, m, d, hh, c, mm, ss} THEN UndefFields
  ELSE
    LET c1 == CAdd(c, CDiv(mm, 60))
        m1 == CRem(mm, 60)
        c2 == IF m1 < 0 THEN CSub(c1, 1) ELSE c1
        m2 == IF m1 < 0 THEN m1 + 60 ELSE m1
    IN n_hour(y, m, d, CAdd(CDiv(hh, 24), CDiv(c2, 24)),
              CAdd(CRem(hh, 24), CRem(c2, 24)), m2, ss)

\* impl::n_sec
n_sec(y, m, d, hh, mm, ss) ==
  IF Undef \in {y, m, d, hh, mm, ss} THEN UndefFields
  ELSE
    LET c0 == CDiv(ss, 60)
        s1 == CRem(ss, 60)
        c1 == IF s1 < 0 THEN CSub(c0, 1) ELSE c0
        s2 == IF s1 < 0 THEN s1 + 60 ELSE s1
    IN n_min(y, m, d, hh, CAdd(CDiv(mm, 60), CDiv(c1, 60)),
             CAdd(CRem(mm, 60), CRem(c1, 60)), s2)

\* step(T, f, n): increments the indicated field of the normalized f by n
step(T, f, n) ==
  IF n = Undef \/ IsUndefFields(f) THEN UndefFields
  ELSE CASE T = "second" ->
              n_sec(f.y, f.m, f.d, f.hh, CAdd(f.mm, CDiv(n, 60)),
                    CAdd(f.ss, CRem(n, 60)))
         [] T = "minute" ->
              n_min(f.y, f.m, f.d, CAdd(f.hh, CDiv(n, 60)), 0,
                    CAdd(f.mm, CRem(n, 60)), f.ss)
         [] T = "hour" ->
              n_hour(f.y, f.m, CAdd(f.d, CDiv(n, 24)), 0,
                     CAdd(f.hh, CRem(n, 24)), f.mm, f.ss)
         [] T = "day" -> n_day(f.y, f.m, f.d, n, f.hh, f.mm, f.ss)
         [] T = "month" ->
              n_mon(CAdd(f.y, CDiv(n, 12)), CAdd(f.m, CRem(n, 12)), f.d, 0,
                    f.hh, f.mm, f.ss)
         [] T = "year" ->
              IF CAdd(f.y, n) = Undef THEN UndefFields
              ELSE Fields(CAdd(f.y, n), f.m, f.d, f.hh, f.mm, f.ss)

\* align(T, f): aligns the normalized f to the indicated field
align(T, f) ==
  IF IsUndefFields(f) THEN UndefFields
  ELSE CASE T = "second" -> f
         [] T = "minute" -> Fields(f.y, f.m, f.d, f.hh, f.mm, 0)
         [] T = "hour" -> Fields(f.y, f.m, f.d, f.hh, 0, 0)
         [] T = "day" -> Fields(f.y, f.m, f.d, 0, 0, 0)
         [] T = "month" -> Fields(f.y, f.m, 1, 0, 0, 0)
         [] T = "year" -> Fields(f.y, 1, 1, 0, 0, 0)

\* impl::ymd_ord: days of a normalized Y/M/D before/after 1970-01-01
ymd_ord(y, m, d) ==
  LET eyear == IF m <= 2 THEN CSub(y, 1) ELSE y
      era == CDiv(IF eyear = Undef \/ eyear >= 0 THEN eyear
                  ELSE CSub(eyear, 399), 400)
      yoe == CSub(eyear, CMul(era, 400))
      doy == CDiv(153 * (m + (IF m > 2 THEN -3 ELSE 9)) + 2, 5) + d - 1
      doe == CAdd(CSub(CAdd(CMul(yoe, 365), CDiv(yoe, 4)), CDiv(yoe, 100)),
                  doy)
  IN CSub(CAdd(CMul(era, 146097), doe), 719468)

\* difference(year_tag, f1, f2) .. difference(second_tag, f1, f2)
difference_year(f1, f2) == CSub(f1.y, f2.y)
difference_month(f1, f2) ==
  CAdd(CMul(difference_year(f1, f2), 12), f1.m - f2.m)
difference_day(f1, f2) ==
  CSub(ymd_ord(f1.y, f1.m, f1.d), ymd_ord(f2.y, f2.m, f2.d))
difference_hour(f1, f2) ==
  CAdd(CMul(difference_day(f1, f2), 24), f1.hh - f2.hh)
difference_minute(f1, f2) ==
  CAdd(CMul(difference_hour(f1, f2), 60), f1.mm - f2.mm)
difference_second(f1, f2) ==
  CAdd(CMul(difference_minute(f1, f2), 60), f1.ss - f2.ss)

\* difference(T{}, f1, f2): the overload the tag selects
difference(T, f1, f2) ==
  IF IsUndefFields(f1) \/ IsUndefFields(f2) THEN Undef
  ELSE CASE T = "year" -> difference_year(f1, f2)
         [] T = "month" -> difference_month(f1, f2)
         [] T = "day" -> difference_day(f1, f2)
         [] T = "hour" -> difference_hour(f1, f2)
         [] T = "minute" -> difference_minute(f1, f2)
         [] T = "second" -> difference_second(f1, f2)

\* civil_time<T>(y, m, d, hh, mm, ss): normalize, then align (lines 590-592
\* and the designated constructor, line 674)
civil_time(T, y, m, d, hh, mm, ss) == align(T, n_sec(y, m, d, hh, mm, ss))

\* operator+=, lines 623-626
PlusAssign(T, f, n) == step(T, f, n)

\* operator-=, lines 627-634
MinusAssign(T, f, n) ==
  IF n # IntMin THEN step(T, f, CNeg(n))
  ELSE step(T, step(T, f, CNeg(CAdd(n, 1))), 1)

\* operator+(a, n), lines 653-655
BinaryPlus(T, f, n) == align(T, step(T, f, n))

\* operator-(a, n), lines 659-661
BinaryMinus(T, f, n) == align(T, step(T, f, CNeg(n)))

\* operator-(lhs, rhs), lines 662-665
Minus(T, f1, f2) == difference(T, f1, f2)

\* enum class weekday, lines 776-784: monday = 0 .. sunday = 6
Weekdays == 0..6

\* get_weekday(cd), lines 805-812: k_weekday_by_thu_off[i] is thursday + i
k_weekday_by_thu_off(i) == (3 + i) % 7
get_weekday(cd) ==
  IF Minus("day", cd, Fields(1970, 1, 1, 0, 0, 0)) = Undef THEN Undef
  ELSE k_weekday_by_thu_off(
         CRem(CAdd(CRem(Minus("day", cd, Fields(1970, 1, 1, 0, 0, 0)), 7),
                   7), 7))

\* next_weekday(cd, wd), lines 816-819: do { cd += 1; } while (...)
RECURSIVE next_weekday(_, _)
next_weekday_while(cd, w, wd) ==
  IF w = Undef THEN UndefFields
  ELSE IF w # wd THEN next_weekday(cd, wd)
  ELSE cd
next_weekday_do(cd, wd) ==
  IF IsUndefFields(cd) THEN UndefFields
  ELSE next_weekday_while(cd, get_weekday(cd), wd)
next_weekday(cd, wd) == next_weekday_do(PlusAssign("day", cd, 1), wd)

\* prev_weekday(cd, wd), lines 821-824: do { cd -= 1; } while (...)
RECURSIVE prev_weekday(_, _)
prev_weekday_while(cd, w, wd) ==
  IF w = Undef THEN UndefFields
  ELSE IF w # wd THEN prev_weekday(cd, wd)
  ELSE cd
prev_weekday_do(cd, wd) ==
  IF IsUndefFields(cd) THEN UndefFields
  ELSE prev_weekday_while(cd, get_weekday(cd), wd)
prev_weekday(cd, wd) == prev_weekday_do(MinusAssign("day", cd, 1), wd)

\* The civil variables while no civil operation is being modelled:
\* a default-constructed civil_second (line 594).
CivilIdle ==
  /\ cv = Fields(1970, 1, 1, 0, 0, 0)
  /\ tag = "second"
  /\ op = "init"
  /\ arg = 0
  /\ prev = Fields(1970, 1, 1, 0, 0, 0)
  /\ in6 = Fields(1970, 1, 1, 0, 0, 0)
  /\ diff = <<>>
  /\ ub = FALSE
  /\ nops = 0

\* The results of the zone queries before any was made.
NoBreakdown ==
  [year |-> 1970, month |-> 1, day |-> 1, hour |-> 0, minute |-> 0,
   second |-> 0, weekday |-> 4, yearday |-> 1, offset |-> 0,
   is_dst |-> FALSE]

NoTimeInfo ==
  [kind |-> "UNIQUE", pre |-> 0, trans |-> 0, post |-> 0,
   normalized |-> FALSE]

\* A PosixTransition and a PosixTimeZone nothing was parsed into.
NoTransition == [date |-> [fmt |-> "unset"], offset |-> 0]
NoPosixTimeZone ==
  [std_abbr |-> <<>>, std_offset |-> 0, dst_abbr |-> <<>>, dst_offset |-> 0,
   dst_start |-> NoTransition, dst_end |-> NoTransition]

\* Nothing formatted or parsed yet.  A time_point<nanoseconds> is
\* <<q, r>>: q * 10^9 + r nanoseconds since the epoch, with q the count
\* divided by 10^9 toward zero and r the rest, which has the count's sign.
FmtIdle ==
  /\ fop = "none"
  /\ fmt_tp = <<0, 0>>
  /\ fmt_text = <<>>
  /\ parse_format = <<>>
  /\ parse_input = <<>>
  /\ tpp_before = <<0, 0>>
  /\ tpp = <<0, 0>>
  /\ parse_ok = FALSE

\* The parser before it was called.
PosixIdle ==
  /\ posix_spec = <<>>
  /\ parsed = FALSE
  /\ posix = [ok |-> FALSE, res |-> NoPosixTimeZone]

\* What follows the data block of a version-1 file: nothing.
NoTail == [nl |-> FALSE, spec |-> <<>>, closed |-> FALSE]

\* The header of a version-1 file: the magic, a version byte of 0, no leap
\* seconds and no UTC/local or standard/wall indicators.
Version1Head ==
  [magic |-> TRUE, version |-> 0, magic8 |-> FALSE, version8 |-> 0,
   leapcnt |-> 0, ttisstdcnt |-> 0, ttisgmtcnt |-> 0, tail |-> NoTail]

\* A TimeZoneInfo before Load.
ZoneIdle ==
  /\ PosixIdle
  /\ FmtIdle
  /\ extended_ = FALSE
  /\ future_ = <<>>
  /\ tzhead = Version1Head
  /\ tzfile = [types |-> <<>>, trans |-> <<>>]
  /\ zstate = "new"
  /\ transition_types_ = <<>>
  /\ transitions_ = <<>>
  /\ default_transition_type_ = 0
  /\ local_time_hint_ = 0
  /\ time_local_hint_ = 0
  /\ zop = "none"
  /\ q_tp = 0
  /\ bd = NoBreakdown
  /\ q_civil = Fields(1970, 1, 1, 0, 0, 0)
  /\ ti = NoTimeInfo
  /\ nq = 0

----------------------------------------------------------------------------
(* Bounds of the registry model.                                           *)
NThreads == 2
MaxCalls == 3

Threads == 1..NThreads
Names == {"UTC", "Zone/A", "Invalid/TimeZone"}
FileNames == Names \ {"UTC"}
\* An empty name and names with a ':'.  The path of the empty name is the
\* zoneinfo directory itself, which never decodes; a file may exist at the
\* path of ":a".
OddNames == {"", ":a", "libc:x"}
OddFileNames == {":a"}
AllNames == Names \cup OddNames

----------------------------------------------------------------------------
(* time_zone::Impl::LoadTimeZone, time_zone_impl.cc:43-87                  *)

\* The characters of the names modelled.
Chars(name) ==
  CASE name = "" -> <<>>
    [] name = ":a" -> <<":", "a">>
    [] name = "libc:x" -> <<"l", "i", "b", "c", ":", "x">>
    [] name = "UTC" -> <<"U", "T", "C">>
    [] name = "Zone/A" -> <<"Z", "o", "n", "e", "/", "A">>
    [] name = "Invalid/TimeZone" ->
         <<"I", "n", "v", "a", "l", "i", "d", "/",
           "T", "i", "m", "e", "Z", "o", "n", "e">>

\* name.compare(0, 5, "libc:") == 0 (TimeZoneIf::Load)
HasLibcPrefix(name) ==
  /\ Len(Chars(name)) >= 5
  /\ SubSeq(Chars(name), 1, 5) = <<"l", "i", "b", "c", ":">>

\* TimeZoneInfo::Load(name), cctz_info.cc:615-627: the path of the name's
\* file, as the strings it is concatenated from; "LOCALTIME" and "TZDIR"
\* stand for the values of these environment variables or their defaults.
ZonePath(name) ==
  IF name = "localtime" THEN <<"LOCALTIME">>
  ELSE IF Chars(name) # <<>> /\ Chars(name)[1] = "/" THEN <<name>>
  ELSE <<"TZDIR", "/", name>>

\* TimeZoneInfo::Load(name), cctz_info.cc:605-640: "UTC" is generated
\* internally and never fails; any other name loads iff fopen() opens its
\* path and Load(name, fp) decodes the file.
BadTimeZoneInfoLoad(name) == name \in fs
TimeZoneInfoLoad(name) == name = "UTC" \/ name \in fs

\* TimeZoneIf::Load(name): a "libc:" name is served by TimeZoneLibC, every
\* other name by TimeZoneInfo.
BadTimeZoneIfLoad(name) == ~HasLibcPrefix(name) /\ TimeZoneInfoLoad(name)
TimeZoneIfLoad(name) == HasLibcPrefix(name) \/ TimeZoneInfoLoad(name)

\* The paths fopen() is called with while TimeZoneIf::Load(name) runs.
Fopened(name) ==
  IF HasLibcPrefix(name) \/ name = "UTC" THEN {} ELSE {ZonePath(name)}

\* line 44
BadIsUtc(name) == TRUE
IsUtc(name) == name = "UTC"

\* line 54: the value returned on the cached path
BadFirstCheckOk(is_utc, impl) == TRUE
FirstCheckOk(is_utc, impl) == is_utc \/ impl # utc_zone

\* line 69: does the thread holding the exclusive lock load the zone?
BadNeedLoad(impl) == TRUE
NeedLoad(impl) == impl = 0

Top(t) == stack[t][Len(stack[t])]
InFrame(t, fn, pc) ==
  /\ Len(stack[t]) > 0
  /\ Top(t).fn = fn
  /\ Top(t).pc = pc

SetTop(t, f) == [stack EXCEPT ![t] = [@ EXCEPT ![Len(@)] = f]]

\* The pc a frame continues at once call_once() has returned.
AfterOnce(f) == IF f.fn = "LoadTimeZone" THEN "lock2" ELSE "deref"

\* Return from the LoadTimeZone frame on top of t's stack with (*tz, ok).
\* A frame under it is LoadUTCTimeZone()'s call_once lambda, which discards
\* the result and completes the once_flag.
Return(t, tz, ok) ==
  LET f == Top(t)
      n == Len(stack[t])
  IN IF n = 1
       THEN /\ stack' = [stack EXCEPT ![t] = <<>>]
            /\ results' = results \cup
                 {[name |-> f.name, tz |-> tz, ok |-> ok,
                   after_fail |-> f.after_fail, path |-> f.path]}
            /\ UNCHANGED load_utc_once
       ELSE /\ stack' = [stack EXCEPT ![t] =
                 [i \in 1..(n - 1) |->
                    IF i = n - 1
                      THEN [stack[t][i] EXCEPT !.pc = AfterOnce(stack[t][i])]
                      ELSE stack[t][i]]]
            /\ load_utc_once' = "done"
            /\ UNCHANGED results

NewFrame(fn, name, pc) ==
  [fn |-> fn, name |-> name, pc |-> pc, fallback_utc |-> FALSE,
   after_fail |-> name \in failed, path |-> "cached"]

\* A thread calls load_time_zone(name, &tz).
CallLoad(t, name) ==
  /\ stack[t] = <<>>
  /\ calls < MaxCalls
  /\ calls' = calls + 1
  /\ stack' = [stack EXCEPT ![t] = <<NewFrame("LoadTimeZone", name, "check1")>>]
  /\ UNCHANGED <<time_zone_map, map_alloc, utc_zone, load_utc_once,
                 time_zone_mutex, impl_name, results, derefs, loads, failed, fs, fopens>>
  /\ UNCHANGED <<civVars, zoneVars>>

\* A thread dereferences a default-constructed time_zone: Impl::get(), line 89.
CallGet(t) ==
  /\ stack[t] = <<>>
  /\ calls < MaxCalls
  /\ calls' = calls + 1
  /\ stack' = [stack EXCEPT ![t] = <<NewFrame("get", "UTC", "once")>>]
  /\ UNCHANGED <<time_zone_map, map_alloc, utc_zone, load_utc_once,
                 time_zone_mutex, impl_name, results, derefs, loads, failed, fs, fopens>>
  /\ UNCHANGED <<civVars, zoneVars>>

\* lines 59-62: if (!is_utc) LoadUTCTimeZone();
BadNeedsUtcFirst(name) == TRUE
NeedsUtcFirst(name) == ~IsUtc(name)

\* lines 48-62: the first check, under the mutex.
FirstCheck(t) ==
  /\ InFrame(t, "LoadTimeZone", "check1")
  /\ time_zone_mutex = 0
  /\ LET f == Top(t) IN
       IF map_alloc /\ f.name \in DOMAIN time_zone_map
         THEN Return(t, time_zone_map[f.name],
                     FirstCheckOk(IsUtc(f.name), time_zone_map[f.name]))
         ELSE /\ stack' = SetTop(t, [f EXCEPT !.pc =
                             IF NeedsUtcFirst(f.name) THEN "once" ELSE "lock2"])
              /\ UNCHANGED <<results, load_utc_once>>
  /\ UNCHANGED <<time_zone_map, map_alloc, utc_zone, time_zone_mutex,
                 impl_name, calls, derefs, loads, failed, fs, fopens>>
  /\ UNCHANGED <<civVars, zoneVars>>

\* lines 37-39: std::call_once(load_utc_once, [] { utc_time_zone(); }).
\* The first caller runs utc_time_zone(), i.e. LoadTimeZone("UTC"); callers
\* arriving while it runs block until it has completed.
CallOnce(t) ==
  /\ Len(stack[t]) > 0
  /\ Top(t).pc = "once"
  /\ load_utc_once # "running"
  /\ IF load_utc_once = "done"
       THEN /\ stack' = SetTop(t, [Top(t) EXCEPT !.pc = AfterOnce(Top(t))])
            /\ UNCHANGED load_utc_once
       ELSE /\ load_utc_once' = "running"
            /\ stack' = [stack EXCEPT ![t] =
                 Append(@, NewFrame("LoadTimeZone", "UTC", "check1"))]
  /\ UNCHANGED <<time_zone_map, map_alloc, utc_zone, time_zone_mutex,
                 impl_name, calls, results, derefs, loads, failed, fs, fopens>>
  /\ UNCHANGED <<civVars, zoneVars>>

\* line 65: std::lock_guard<std::mutex> lock(time_zone_mutex); the owner of
\* the mutex once the guard is constructed, until the function returns
BadLockGuard(t) == 0
LockGuard(t) == t

\* lines 65-69: take the exclusive lock, create the map and the name's entry.
SecondCheck(t) ==
  /\ InFrame(t, "LoadTimeZone", "lock2")
  /\ time_zone_mutex = 0
  /\ time_zone_mutex' = LockGuard(t)
  /\ map_alloc' = TRUE
  /\ LET f == Top(t)
         impl == IF f.name \in DOMAIN time_zone_map
                   THEN time_zone_map[f.name] ELSE 0
     IN /\ time_zone_map' =
             IF f.name \in DOMAIN time_zone_map THEN time_zone_map
             ELSE [n \in DOMAIN time_zone_map \cup {f.name} |->
                     IF n = f.name THEN 0 ELSE time_zone_map[n]]
        /\ stack' = SetTop(t,
             IF NeedLoad(impl) THEN [f EXCEPT !.pc = "load", !.path = "loaded"]
             ELSE [f EXCEPT !.pc = "unlock", !.path = "raced"])
  /\ UNCHANGED <<utc_zone, load_utc_once, impl_name, calls, results, derefs,
                 loads, failed, fs, fopens>>
  /\ UNCHANGED <<civVars, zoneVars>>

\* lines 70-84: the first thread in loads the zone and installs it, or
\* installs utc_zone when the load fails; the guard of line 65 is in scope.
LoadAndInstall(t) ==
  /\ InFrame(t, "LoadTimeZone", "load")
  /\ LET f == Top(t)
         h == Len(impl_name) + 1
     IN /\ loads' = [loads EXCEPT ![f.name] = @ + 1]
        /\ fopens' = fopens \cup Fopened(f.name)
        /\ IF ~TimeZoneIfLoad(f.name)
             THEN /\ time_zone_map' = [time_zone_map EXCEPT ![f.name] = utc_zone]
                  /\ stack' = SetTop(t, [f EXCEPT !.pc = "unlock",
                                                  !.fallback_utc = TRUE])
                  /\ failed' = failed \cup {f.name}
                  /\ UNCHANGED <<impl_name, utc_zone>>
             ELSE /\ impl_name' = Append(impl_name, f.name)
                  /\ utc_zone' = IF IsUtc(f.name) THEN h ELSE utc_zone
                  /\ time_zone_map' = [time_zone_map EXCEPT ![f.name] = h]
                  /\ stack' = SetTop(t, [f EXCEPT !.pc = "unlock"])
                  /\ UNCHANGED failed
  /\ UNCHANGED <<map_alloc, load_utc_once, time_zone_mutex, calls, results,
                 derefs, fs>>
  /\ UNCHANGED <<civVars, zoneVars>>

\* lines 85-87: *tz = time_zone(impl); return !fallback_utc; (lock released)
UnlockReturn(t) ==
  /\ InFrame(t, "LoadTimeZone", "unlock")
  /\ time_zone_mutex = t
  /\ time_zone_mutex' = 0
  /\ Return(t, time_zone_map[Top(t).name], ~Top(t).fallback_utc)
  /\ UNCHANGED <<time_zone_map, map_alloc, utc_zone, impl_name, calls, derefs,
                 loads, failed, fs, fopens>>
  /\ UNCHANGED <<civVars, zoneVars>>

\* line 94: return *utc_zone;
GetDeref(t) ==
  /\ InFrame(t, "get", "deref")
  /\ derefs' = derefs \cup {utc_zone}
  /\ stack' = [stack EXCEPT ![t] = <<>>]
  /\ UNCHANGED <<time_zone_map, map_alloc, utc_zone, load_utc_once,
                 time_zone_mutex, impl_name, calls, results, loads, failed, fs, fopens>>
  /\ UNCHANGED <<civVars, zoneVars>>

\* The environment installs the zoneinfo file of a name.
InstallFile(name) ==
  /\ name \in (FileNames \cup OddFileNames) \ fs
  /\ fs' = fs \cup {name}
  /\ UNCHANGED <<time_zone_map, map_alloc, utc_zone, load_utc_once,
                 time_zone_mutex, impl_name, stack, calls, results, derefs,
                 loads, failed, fopens>>
  /\ UNCHANGED <<civVars, zoneVars>>

InitLoad ==
  /\ time_zone_map = <<>>
  /\ map_alloc = FALSE
  /\ utc_zone = 0
  /\ load_utc_once = "init"
  /\ time_zone_mutex = 0
  /\ impl_name = <<>>
  /\ stack = [t \in Threads |-> <<>>]
  /\ calls = 0
  /\ results = {}
  /\ derefs = {}
  /\ loads = [n \in AllNames |-> 0]
  /\ failed = {}
  /\ fs \in SUBSET FileNames
  /\ fopens = {}
  /\ CivilIdle
  /\ ZoneIdle

NextLoad ==
  \/ \E t \in Threads, name \in Names : CallLoad(t, name)
  \/ \E t \in Threads : CallGet(t)
  \/ \E t \in Threads : FirstCheck(t)
  \/ \E t \in Threads : CallOnce(t)
  \/ \E t \in Threads : SecondCheck(t)
  \/ \E t \in Threads : LoadAndInstall(t)
  \/ \E t \in Threads : UnlockReturn(t)
  \/ \E t \in Threads : GetDeref(t)
  \/ \E name \in FileNames : InstallFile(name)

SpecLoad == InitLoad /\ [][NextLoad]_vars

\* The steps of thread t inside a call it has made
ThreadStep(t) ==
  \/ FirstCheck(t)
  \/ CallOnce(t)
  \/ SecondCheck(t)
  \/ LoadAndInstall(t)
  \/ UnlockReturn(t)
  \/ GetDeref(t)

\* Every thread that can take a step is scheduled in the end.  Nothing is
\* assumed of the callers or of the file system.
SpecLoadFair == SpecLoad /\ \A t \in Threads : WF_vars(ThreadStep(t))

\* Loads of the empty name and of names with a ':'.
InitNames ==
  /\ time_zone_map = <<>>
  /\ map_alloc = FALSE
  /\ utc_zone = 0
  /\ load_utc_once = "init"
  /\ time_zone_mutex = 0
  /\ impl_name = <<>>
  /\ stack = [t \in Threads |-> <<>>]
  /\ calls = 0
  /\ results = {}
  /\ derefs = {}
  /\ loads = [n \in AllNames |-> 0]
  /\ failed = {}
  /\ fs \in SUBSET OddFileNames
  /\ fopens = {}
  /\ CivilIdle
  /\ ZoneIdle

NextNames ==
  \/ \E t \in Threads, name \in OddNames \cup {"UTC"} : CallLoad(t, name)
  \/ \E t \in Threads : FirstCheck(t)
  \/ \E t \in Threads : CallOnce(t)
  \/ \E t \in Threads : SecondCheck(t)
  \/ \E t \in Threads : LoadAndInstall(t)
  \/ \E t \in Threads : UnlockReturn(t)
  \/ \E name \in OddFileNames : InstallFile(name)

SpecNames == InitNames /\ [][NextNames]_vars

----------------------------------------------------------------------------
(* Civil-time operations as steps.  An operation whose evaluation overflows *)
(* an int has undefined behaviour: ub is set and the value left behind is   *)
(* any of UbFields (UbInts for an int result).  Nothing is modelled after   *)
(* undefined behaviour.                                                     *)

UbFields ==
  {Fields(1970, 1, 1, 0, 0, 0), Fields(IntMin, 1, 1, 0, 0, 0),
   Fields(IntMax, 12, 31, 23, 59, 59)}
UbInts == {IntMin, 0, IntMax}

\* The registry while no load is being modelled.
RegIdle ==
  /\ time_zone_map = <<>>
  /\ map_alloc = FALSE
  /\ utc_zone = 0
  /\ load_utc_once = "init"
  /\ time_zone_mutex = 0
  /\ impl_name = <<>>
  /\ stack = [t \in Threads |-> <<>>]
  /\ calls = 0
  /\ results = {}
  /\ derefs = {}
  /\ loads = [n \in AllNames |-> 0]
  /\ failed = {}
  /\ fs = {}
  /\ fopens = {}

\* f_ = r, or undefined behaviour if evaluating r overflowed.
Assign(r, name, n) ==
  /\ ~ub
  /\ prev' = cv
  /\ op' = name
  /\ arg' = n
  /\ diff' = <<>>
  /\ nops' = nops + 1
  /\ IF IsUndefFields(r)
       THEN ub' = TRUE /\ cv' \in UbFields
       ELSE ub' = FALSE /\ cv' = r
  /\ UNCHANGED <<tag, in6>>
  /\ UNCHANGED <<regVars, zoneVars>>

\* civil_time<T> x(y, m, d, hh, mm, ss), lines 590-592
Construct ==
  /\ op = "init"
  /\ Assign(civil_time(tag, in6.y, in6.m, in6.d, in6.hh, in6.mm, in6.ss),
            "construct", 0)

MaxOps == 2

\* x += n
OpPlusAssign(n) ==
  /\ nops < MaxOps
  /\ Assign(PlusAssign(tag, cv, n), "plus_assign", n)

\* x -= n
OpMinusAssign(n) ==
  /\ nops < MaxOps
  /\ Assign(MinusAssign(tag, cv, n), "minus_assign", n)

\* x = x + n
OpBinaryPlus(n) ==
  /\ nops < MaxOps
  /\ Assign(BinaryPlus(tag, cv, n), "plus", n)

\* x = x - n
OpBinaryMinus(n) ==
  /\ nops < MaxOps
  /\ Assign(BinaryMinus(tag, cv, n), "minus", n)

\* diff = x - x0, where x0 is x before the last operation
OpDifference ==
  /\ ~ub
  /\ op \notin {"init", "construct"}
  /\ diff = <<>>
  /\ LET r == Minus(tag, cv, prev)
     IN IF r = Undef
          THEN ub' = TRUE /\ \E v \in UbInts \cup {arg} : diff' = <<v>>
          ELSE ub' = FALSE /\ diff' = <<r>>
  /\ UNCHANGED <<cv, tag, op, arg, prev, in6, nops>>
  /\ UNCHANGED <<regVars, zoneVars>>

\* The ints the constructor is tried with: in range, just out of range, and
\* the int limits.
YearSet == {IntMin, IntMin + 1, -1, 0, 1897, 1970, 2016, IntMax}
MonthSet == {IntMin, -1, 0, 1, 3, 12, 14, IntMax}
DaySet == {IntMin, -365, 0, 1, 29, 32, 1462, IntMax}
HourSet == {IntMin, -1, 0, 24, IntMax}
MinuteSet == {IntMin, -1, 0, 60, IntMax}
SecondSet == {IntMin, -1, 0, 60, IntMax}

InitNorm ==
  /\ RegIdle
  /\ ZoneIdle
  /\ tag = "second"
  /\ in6 \in [y : YearSet, m : MonthSet, d : DaySet,
              hh : HourSet, mm : MinuteSet, ss : SecondSet]
  /\ cv = Fields(1970, 1, 1, 0, 0, 0)
  /\ op = "init"
  /\ arg = 0
  /\ prev = Fields(1970, 1, 1, 0, 0, 0)
  /\ diff = <<>>
  /\ ub = FALSE
  /\ nops = 0

NextNorm == Construct

SpecNorm == InitNorm /\ [][NextNorm]_vars

\* The values (each one the constructor yields without overflow) and the
\* steps the arithmetic is tried with.
BaseSet ==
  {Fields(1970, 1, 1, 0, 0, 0), Fields(1970, 1, 1, 0, 0, 59),
   Fields(2016, 2, 29, 23, 59, 59), Fields(-1, 12, 31, 23, 59, 59),
   Fields(IntMax, 2, 28, 23, 59, 59), Fields(IntMin, 1, 1, 0, 0, 0)}
StepSet == {IntMin, IntMin + 1, -61, -1, 0, 1, 61, IntMax}

InitArith ==
  /\ RegIdle
  /\ ZoneIdle
  /\ tag \in Tags
  /\ \E b \in BaseSet : cv = align(tag, b) /\ in6 = b /\ prev = align(tag, b)
  /\ op = "construct"
  /\ arg = 0
  /\ diff = <<>>
  /\ ub = FALSE
  /\ nops = 0

NextArith ==
  \/ \E n \in StepSet : OpPlusAssign(n)
  \/ \E n \in StepSet : OpMinusAssign(n)
  \/ \E n \in StepSet : OpBinaryPlus(n)
  \/ \E n \in StepSet : OpBinaryMinus(n)
  \/ OpDifference

SpecArith == InitArith /\ [][NextArith]_vars

\* cd = next_weekday(cd, wd)
OpNextWeekday(wd) ==
  /\ nops < MaxOps
  /\ Assign(next_weekday(cv, wd), "next_weekday", wd)

\* cd = prev_weekday(cd, wd)
OpPrevWeekday(wd) ==
  /\ nops < MaxOps
  /\ Assign(prev_weekday(cv, wd), "prev_weekday", wd)

\* The civil days the weekday functions are tried with: every day of two
\* weeks around a leap day, the days around the epoch and around year 0,
\* and days in years far from 1970.
DaySeeds ==
  {Fields(2000, 2, d, 0, 0, 0) : d \in 20..29}
    \cup {Fields(2000, 3, d, 0, 0, 0) : d \in 1..4}
    \cup {Fields(1970, 1, 1, 0, 0, 0), Fields(1969, 12, 31, 0, 0, 0),
          Fields(-1, 12, 31, 0, 0, 0), Fields(0, 1, 1, 0, 0, 0),
          Fields(20000, 7, 4, 0, 0, 0), Fields(-20000, 7, 4, 0, 0, 0),
          Fields(30000, 1, 1, 0, 0, 0), Fields(-30000, 12, 31, 0, 0, 0)}

InitWeekday ==
  /\ RegIdle
  /\ ZoneIdle
  /\ tag = "day"
  /\ \E b \in DaySeeds : cv = b /\ in6 = b /\ prev = b
  /\ op = "construct"
  /\ arg = 0
  /\ diff = <<>>
  /\ ub = FALSE
  /\ nops = 0

NextWeekday ==
  \/ \E wd \in Weekdays : OpNextWeekday(wd)
  \/ \E wd \in Weekdays : OpPrevWeekday(wd)

SpecWeekday == InitWeekday /\ [][NextWeekday]_vars

----------------------------------------------------------------------------
(* cctz_info.cc: calendar helpers.  These compute in int64_t / int on       *)
(* values far from the type limits, so plain integers model them; "/" and   *)
(* "%" truncate toward zero.                                                *)

TDiv(a, b) == IF a >= 0 THEN a \div b ELSE -((-a) \div b)
TRem(a, b) == a - b * TDiv(a, b)

SECSPERDAY == 86400
DAYSPERNYEAR == 365

\* IsLeap (tzfile.h isleap)
IsLeap(year) ==
  TRem(year, 4) = 0 /\ (TRem(year, 100) # 0 \/ TRem(year, 400) = 0)

\* kDaysPerMonth[leap_year][mon]
kDaysPerMonth(leap_year, mon) ==
  IF mon = 2 THEN (IF leap_year THEN 29 ELSE 28)
  ELSE <<31, 28, 31, 30, 31, 30, 31, 31, 30, 31, 30, 31>>[mon]

\* kMonthOffsets[leap_year][month], month in 1..13
kMonthOffsets(leap_year, month) ==
  IF leap_year
    THEN <<0, 31, 60, 91, 121, 152, 182, 213, 244, 274, 305, 335, 366>>[month]
    ELSE <<0, 31, 59, 90, 120, 151, 181, 212, 243, 273, 304, 334, 365>>[month]

\* DaysPer100Years: kDaysPer100Years[] is 1 at index 0 and at 301..400
DaysPer100Years(eyear) ==
  36524 + (IF eyear = 0 \/ eyear >= 301 THEN 1 ELSE 0)

\* DaysPer4Years: kDaysPer4Years[] is 0 at 97..100, 197..200, 297..300
DaysPer4Years(eyear) ==
  1460 + (IF eyear \in (97..100) \cup (197..200) \cup (297..300)
            THEN 0 ELSE 1)

\* DaysPerYear
DaysPerYear(year) == IF IsLeap(year) THEN 366 ELSE 365

\* DayOrdinal
DayOrdinal(year, month, day) ==
  LET y == year - (IF month <= 2 THEN 1 ELSE 0)
      era == TDiv(IF y >= 0 THEN y ELSE y - 399, 400)
      yoe == y - era * 400
      doy == TDiv(153 * (month + (IF month > 2 THEN -3 ELSE 9)) + 2, 5)
             + day - 1
      doe == yoe * 365 + TDiv(yoe, 4) - TDiv(yoe, 100) + doy
  IN era * 146097 + doe - 719468

\* NormalizeField(base, zero, &val, carry_in): <<carry_out, val>>
NormalizeFieldRem(base, zero, carry_out, rem) ==
  IF rem < 0 THEN <<carry_out - 1, rem + base + zero>>
  ELSE <<carry_out, rem + zero>>
NormalizeFieldCarry(base, zero, carry_out, rem, carry_in) ==
  IF carry_in = 0 THEN NormalizeFieldRem(base, zero, carry_out, rem)
  ELSE IF rem + TRem(carry_in, base) < 0
    THEN NormalizeFieldRem(base, zero, carry_out + TDiv(carry_in, base) - 1,
                           rem + TRem(carry_in, base) + base)
  ELSE IF rem + TRem(carry_in, base) >= base
    THEN NormalizeFieldRem(base, zero, carry_out + TDiv(carry_in, base) + 1,
                           rem + TRem(carry_in, base) - base)
  ELSE NormalizeFieldRem(base, zero, carry_out + TDiv(carry_in, base),
                         rem + TRem(carry_in, base))
NormalizeField(base, zero, val, carry_in) ==
  IF zero # 0 /\ val < 0
    THEN NormalizeFieldCarry(base, zero, -1 + TDiv(val + base - zero, base),
                             TRem(val + base - zero, base), carry_in)
    ELSE NormalizeFieldCarry(base, zero, TDiv(val - zero, base),
                             TRem(val - zero, base), carry_in)

\* DateTime::Normalize, lines 316-327: the DateTime offset
NormalizeOffset(year, mon, day, hour, min, sec, normalized) ==
  [offset |-> DayOrdinal(year, mon, day) * SECSPERDAY
              + hour * 3600 + min * 60 + sec,
   normalized |-> normalized]

\* DateTime::Normalize, lines 305-311: days within one year
RECURSIVE NormalizeMonths(_, _, _, _, _, _, _, _, _, _)
NormalizeMonths(year, year_carry, eyear, mon, day, orig_day, hour, min, sec, normalized) ==
  IF day > kDaysPerMonth(IsLeap(eyear), mon)
    THEN IF mon + 1 > 12
      THEN NormalizeMonths(year, year_carry, eyear + 1, 1,
                           day - kDaysPerMonth(IsLeap(eyear), mon), orig_day,
                           hour, min, sec, normalized)
      ELSE NormalizeMonths(year, year_carry, eyear, mon + 1,
                           day - kDaysPerMonth(IsLeap(eyear), mon), orig_day,
                           hour, min, sec, normalized)
    ELSE NormalizeOffset(year + year_carry + eyear, mon, day, hour, min, sec,
                         normalized \/ day # orig_day)

\* DateTime::Normalize, lines 298-301: days in chunks of 1 year
RECURSIVE NormalizeYears(_, _, _, _, _, _, _, _, _, _)
NormalizeYears(year, year_carry, eyear, mon, day, orig_day, hour, min, sec, normalized) ==
  IF day > DaysPerYear(eyear)
    THEN NormalizeYears(year, year_carry, eyear + 1, mon,
                        day - DaysPerYear(eyear), orig_day,
                        hour, min, sec, normalized)
    ELSE NormalizeMonths(year, year_carry,
                         eyear - (IF mon > 2 THEN 1 ELSE 0), mon, day,
                         orig_day, hour, min, sec, normalized)

\* DateTime::Normalize, lines 294-297: days in chunks of 4 years
RECURSIVE Normalize4Years(_, _, _, _, _, _, _, _, _, _)
Normalize4Years(year, year_carry, eyear, mon, day, orig_day, hour, min, sec, normalized) ==
  IF day > DaysPer4Years(eyear)
    THEN IF eyear + 4 > 400
      THEN Normalize4Years(year, year_carry + 400, eyear + 4 - 400, mon,
                           day - DaysPer4Years(eyear), orig_day,
                           hour, min, sec, normalized)
      ELSE Normalize4Years(year, year_carry, eyear + 4, mon,
                           day - DaysPer4Years(eyear), orig_day,
                           hour, min, sec, normalized)
    ELSE NormalizeYears(year, year_carry, eyear, mon, day, orig_day,
                        hour, min, sec, normalized)

\* DateTime::Normalize, lines 290-293: days in chunks of 100 years
RECURSIVE Normalize100Years(_, _, _, _, _, _, _, _, _, _)
Normalize100Years(year, year_carry, eyear, mon, day, orig_day, hour, min, sec, normalized) ==
  IF day > DaysPer100Years(eyear)
    THEN IF eyear + 100 > 400
      THEN Normalize100Years(year, year_carry + 400, eyear + 100 - 400, mon,
                             day - DaysPer100Years(eyear), orig_day,
                             hour, min, sec, normalized)
      ELSE Normalize100Years(year, year_carry, eyear + 100, mon,
                             day - DaysPer100Years(eyear), orig_day,
                             hour, min, sec, normalized)
    ELSE Normalize4Years(year, year_carry, eyear, mon, day, orig_day,
                         hour, min, sec, normalized)

\* DateTime::Normalize, lines 281-304: days beyond one year
NormalizeDays(year, year_carry, eyear, mon, day, hour, min, sec, normalized) ==
  IF day > DAYSPERNYEAR
    THEN IF day > 146097 - DAYSPERNYEAR
      THEN NormalizeMonths(
             year, year_carry,
             eyear + (IF mon > 2 THEN 1 ELSE 0) + 400 - 1
               - (IF mon > 2 THEN 1 ELSE 0),
             mon,
             DaysPerYear(eyear + (IF mon > 2 THEN 1 ELSE 0) + 400 - 1)
               - (146097 - day),
             day, hour, min, sec, normalized)
      ELSE Normalize100Years(year, year_carry,
                             eyear + (IF mon > 2 THEN 1 ELSE 0), mon, day,
                             day, hour, min, sec, normalized)
    ELSE NormalizeMonths(year, year_carry, eyear, mon, day, day,
                         hour, min, sec, normalized)

\* DateTime::Normalize, lines 276-279: the [0:399] year equivalent to
\* year + year_carry
NormalizeEyear(year, year_carry, eyear, mon, day, hour, min, sec, normalized) ==
  IF eyear < 0
    THEN NormalizeDays(year, year_carry - (eyear + 400), eyear + 400,
                       mon, day, hour, min, sec, normalized)
    ELSE NormalizeDays(year, year_carry - eyear, eyear,
                       mon, day, hour, min, sec, normalized)

NormalizeCarries(year, mon, day, hour, min, sec, year_carry, c4_carry, normalized) ==
  NormalizeEyear(
    year, year_carry + c4_carry * 400,
    IF year_carry + c4_carry * 400 # 0
      THEN TRem(TRem(year, 400) + year_carry + c4_carry * 400, 400)
      ELSE TRem(year, 400),
    mon, day, hour, min, sec, normalized \/ c4_carry # 0)

\* DateTime::Normalize(year, mon, day, hour, min, sec): the DateTime's
\* offset and whether the fields were changed
Normalize(year, mon, day, hour, min, sec) ==
  LET s == NormalizeField(60, 0, sec, 0)
      mi == NormalizeField(60, 0, min, s[1])
      h == NormalizeField(24, 0, hour, mi[1])
      mo == NormalizeField(12, 1, mon, 0)
      d == NormalizeField(146097, 1, day, h[1])
  IN NormalizeCarries(year, mo[2], d[2], h[2], mi[2], s[2], mo[1], d[1],
                      s[1] # 0 \/ mi[1] # 0 \/ h[1] # 0 \/ mo[1] # 0)

\* TimeZoneInfo::LocalTime, lines 709-738: months, days, hours, minutes and
\* seconds.  "days" and "seconds" together are the code's "seconds": whole
\* days and the rest, as every chunk the code takes off is whole days.
RECURSIVE LocalTimeMonth(_, _, _)
LocalTimeMonth(leap_year, month, day) ==
  IF month = 1 THEN <<month, day>>
  ELSE IF day > kMonthOffsets(leap_year, month)
    THEN <<month, day - kMonthOffsets(leap_year, month)>>
  ELSE LocalTimeMonth(leap_year, month - 1, day)

LocalTimeFields(year, days, seconds, weekday, leap_year, tt) ==
  [year |-> year,
   month |-> LocalTimeMonth(leap_year, 12, days + 1)[1],
   day |-> LocalTimeMonth(leap_year, 12, days + 1)[2],
   hour |-> TDiv(seconds, 3600),
   minute |-> TDiv(TRem(seconds, 3600), 60),
   second |-> TRem(TRem(seconds, 3600), 60),
   weekday |-> TRem(weekday + days - 1, 7) + 1,
   yearday |-> days + 1,
   offset |-> tt.utc_offset,
   is_dst |-> tt.is_dst]

\* lines 700-707: years in chunks of 1
RECURSIVE LocalTimeYears(_, _, _, _, _, _)
LocalTimeYears(year, days, seconds, weekday, leap_year, tt) ==
  IF days >= (IF leap_year THEN 366 ELSE 365)
    THEN LocalTimeYears(year + 1, days - (IF leap_year THEN 366 ELSE 365),
                        seconds, weekday + 1 + (IF leap_year THEN 1 ELSE 0),
                        FALSE, tt)
    ELSE LocalTimeFields(year, days, seconds, weekday, leap_year, tt)

\* lines 692-699: years in chunks of 4
RECURSIVE LocalTime4Years(_, _, _, _, _, _)
LocalTime4Years(year, days, seconds, weekday, leap_year, tt) ==
  IF days >= (IF leap_year THEN 1461 ELSE 1460)
    THEN LocalTime4Years(year + 4, days - (IF leap_year THEN 1461 ELSE 1460),
                         seconds, weekday + 4 + (IF leap_year THEN 1 ELSE 0),
                         TRUE, tt)
    ELSE LocalTimeYears(year, days, seconds, weekday, leap_year, tt)

\* lines 683-691: years in chunks of 100
RECURSIVE LocalTime100Years(_, _, _, _, _, _)
LocalTime100Years(year, days, seconds, weekday, leap_year, tt) ==
  IF days >= (IF leap_year THEN 36525 ELSE 36524)
    THEN LocalTime100Years(year + 100,
                           days - (IF leap_year THEN 36525 ELSE 36524),
                           seconds,
                           weekday + 5 + (IF leap_year THEN 1 ELSE 0),
                           FALSE, tt)
    ELSE LocalTime4Years(year, days, seconds, weekday, leap_year, tt)

\* TimeZoneInfo::LocalTime(unix_time, tt).  Lines 676-682 take whole
\* 400-year chunks off with "/" and "%" and then repair a negative rest,
\* which is the floored quotient and rest taken here.  The guards of lines
\* 662-673 against int64_t overflow never hold for the instants modelled.
LocalTime(unix_time, tt) ==
  LocalTime100Years(
    (IF unix_time >= 0 THEN 2000 ELSE 1600)
      + 400 * (((unix_time + tt.utc_offset) \div SECSPERDAY
                + (IF unix_time >= 0 THEN -10957 ELSE 146097 - 10957))
               \div 146097),
    ((unix_time + tt.utc_offset) \div SECSPERDAY
      + (IF unix_time >= 0 THEN -10957 ELSE 146097 - 10957)) % 146097,
    (unix_time + tt.utc_offset) % SECSPERDAY,
    6, TRUE, tt)

\* DateTime::Assign(bd): the DateTime offset of a Breakdown
DateTimeAssign(b) ==
  Normalize(b.year, b.month, b.day, b.hour, b.minute, b.second).offset

----------------------------------------------------------------------------
(* time_zone_if.cc, lines 66-218: the POSIX-TZ parser.  A char_range is the *)
(* sequence of its characters and a position in it, 1 for the first         *)
(* character and Len + 1 for its end; position 0 is nullptr.  The parse     *)
(* functions return <<position, value>>.                                    *)

kMaxInt == 2147483647

\* *p: the character at p; the terminator at the end
At(s, p) == IF p <= Len(s) THEN s[p] ELSE "NUL"

\* *p - '0' when that is in 0..9, else -1
DigitOf(c) ==
  CASE c = "0" -> 0 [] c = "1" -> 1 [] c = "2" -> 2 [] c = "3" -> 3
    [] c = "4" -> 4 [] c = "5" -> 5 [] c = "6" -> 6 [] c = "7" -> 7
    [] c = "8" -> 8 [] c = "9" -> 9 [] OTHER -> -1

Nullptr == <<0, 0>>

\* ParseInt, lines 86-94: the loop over the digits
RECURSIVE ParseIntLoop(_, _, _)
ParseIntLoop(s, p, value) ==
  IF p = Len(s) + 1 \/ DigitOf(At(s, p)) < 0 THEN <<p, value>>
  ELSE IF value > kMaxInt \div 10 THEN Nullptr
  ELSE IF value * 10 > kMaxInt - DigitOf(s[p]) THEN Nullptr
  ELSE ParseIntLoop(s, p + 1, value * 10 + DigitOf(s[p]))

\* ParseInt(s, min, max, vp)
ParseIntRange(r, p, min, max) ==
  IF r[1] = 0 \/ r[1] = p \/ r[2] < min \/ max < r[2] THEN Nullptr ELSE r
ParseInt(s, p, min, max) == ParseIntRange(ParseIntLoop(s, p, 0), p, min, max)

\* ParseAbbr, lines 103-109: the <...> form; p is the position after ++p
RECURSIVE ParseAbbrQuoted(_, _)
ParseAbbrQuoted(s, p) ==
  IF At(s, p) = ">" THEN p
  ELSE IF p >= Len(s) + 1 THEN 0
  ELSE ParseAbbrQuoted(s, p + 1)

\* ParseAbbr, lines 111-114: up to the first of "-+,0123456789"
RECURSIVE ParseAbbrPlain(_, _)
ParseAbbrPlain(s, p) ==
  IF p = Len(s) + 1 THEN p
  ELSE IF s[p] \in {"-", "+", ","} \/ DigitOf(s[p]) >= 0 THEN p
  ELSE ParseAbbrPlain(s, p + 1)

\* ParseAbbr(s, abbr)
ParseAbbr(s, p) ==
  IF At(s, p) = "<"
    THEN (IF ParseAbbrQuoted(s, p + 1) = 0 THEN <<0, <<>>>>
          ELSE <<ParseAbbrQuoted(s, p + 1) + 1,
                 SubSeq(s, p + 1, ParseAbbrQuoted(s, p + 1) - 1)>>)
  ELSE IF ParseAbbrPlain(s, p) - p < 3 THEN <<0, <<>>>>
  ELSE <<ParseAbbrPlain(s, p), SubSeq(s, p, ParseAbbrPlain(s, p) - 1)>>

\* ParseOffset, lines 124-128: <<position, sign>> after the optional sign
ParseOffsetSign(s, p, sign) ==
  IF At(s, p) = "-" THEN <<p + 1, -sign>>
  ELSE IF At(s, p) = "+" THEN <<p + 1, sign>>
  ELSE <<p, sign>>

\* ParseOffset, lines 139-144: the optional seconds; m is the minutes parsed
ParseOffsetSeconds(s, sign, hours, m, sec) ==
  IF At(s, m[1]) # ":"
    THEN <<m[1], sign * ((((hours * 60) + m[2]) * 60) + 0)>>
  ELSE IF sec[1] = 0 THEN Nullptr
  ELSE <<sec[1], sign * ((((hours * 60) + m[2]) * 60) + sec[2])>>

\* ParseOffset, lines 136-144: the optional minutes; h is the hours parsed
ParseOffsetMinutes(s, sign, h, m) ==
  IF At(s, h[1]) # ":" THEN <<h[1], sign * ((((h[2] * 60) + 0) * 60) + 0)>>
  ELSE IF m[1] = 0 THEN Nullptr
  ELSE ParseOffsetSeconds(s, sign, h[2], m, ParseInt(s, m[1] + 1, 0, 59))

ParseOffsetHours(s, sign, h) ==
  IF h[1] = 0 THEN Nullptr
  ELSE ParseOffsetMinutes(s, sign, h, ParseInt(s, h[1] + 1, 0, 59))

\* ParseOffset(s, min_hour, max_hour, sign, offset)
ParseOffset(s, p, min_hour, max_hour, sign) ==
  ParseOffsetHours(s, ParseOffsetSign(s, p, sign)[2],
                   ParseInt(s, ParseOffsetSign(s, p, sign)[1],
                            min_hour, max_hour))

\* ParseDateTime, lines 151-169: Mm.w.d; p is the position after ",M" and
\* date is what res->date held
ParseDateWeekday(s, date, month, week, weekday) ==
  IF At(s, week[1]) # "." THEN <<week[1], date>>
  ELSE IF weekday[1] = 0 THEN <<0, date>>
  ELSE <<weekday[1], [fmt |-> "M", month |-> month[2], week |-> week[2],
                      weekday |-> weekday[2]]>>
ParseDateWeek(s, date, month, week) ==
  IF At(s, month[1]) # "." THEN <<month[1], date>>
  ELSE IF week[1] = 0 THEN <<0, date>>
  ELSE ParseDateWeekday(s, date, month, week, ParseInt(s, week[1] + 1, 0, 6))
ParseDateMonth(s, date, month) ==
  IF month[1] = 0 THEN <<0, date>>
  ELSE ParseDateWeek(s, date, month, ParseInt(s, month[1] + 1, 1, 5))

\* ParseDateTime, lines 169-181: Jn and n; day is the number parsed
ParseDateDay(date, fmt, day) ==
  IF day[1] = 0 THEN <<0, date>> ELSE <<day[1], [fmt |-> fmt, day |-> day[2]]>>

\* ParseDateTime, lines 150-182: the date
ParseDate(s, p, date) ==
  IF At(s, p) # "," THEN <<p, date>>
  ELSE IF At(s, p + 1) = "M"
    THEN ParseDateMonth(s, date, ParseInt(s, p + 2, 1, 12))
  ELSE IF At(s, p + 1) = "J"
    THEN ParseDateDay(date, "J", ParseInt(s, p + 2, 1, 365))
  ELSE ParseDateDay(date, "N", ParseInt(s, p + 1, 0, 365))

\* ParseDateTime, lines 183-188: the time; d is the date parsed
ParseTime(s, res, d, o) ==
  IF d[1] = 0 THEN <<0, res>>
  ELSE IF At(s, d[1]) # "/"
    THEN <<d[1], [date |-> d[2], offset |-> 2 * 60 * 60]>>
  ELSE IF o[1] = 0 THEN <<0, [date |-> d[2], offset |-> 2 * 60 * 60]>>
  ELSE <<o[1], [date |-> d[2], offset |-> o[2]]>>

\* ParseDateTime(s, res); res is what *res held
ParseDateTimeOf(s, res, d) ==
  ParseTime(s, res, d, ParseOffset(s, d[1] + 1, -167, 167, 1))
ParseDateTime(s, p, res) == ParseDateTimeOf(s, res, ParseDate(s, p, res.date))

\* ParsePosixSpec, lines 214-215: the second rule and the end of the input
ParsePosixSpecEnd(spec, res, d) ==
  [ok |-> d[1] = Len(spec) + 1, res |-> [res EXCEPT !.dst_end = d[2]]]

\* lines 212-213: the first rule
ParsePosixSpecStart(spec, res, d) ==
  IF d[1] = 0 THEN [ok |-> FALSE, res |-> [res EXCEPT !.dst_start = d[2]]]
  ELSE ParsePosixSpecEnd(spec, [res EXCEPT !.dst_start = d[2]],
                         ParseDateTime(spec, d[1], res.dst_end))

\* lines 206-210: the daylight offset, an hour ahead unless given
ParsePosixSpecDstOffset(spec, res, o) ==
  IF o[1] = 0 THEN [ok |-> FALSE, res |-> res]
  ELSE ParsePosixSpecStart(spec, [res EXCEPT !.dst_offset = o[2]],
                           ParseDateTime(spec, o[1], res.dst_start))

\* lines 204-205: the daylight abbreviation
ParsePosixSpecDst(spec, res, a) ==
  IF a[1] = 0 THEN [ok |-> FALSE, res |-> res]
  ELSE ParsePosixSpecDstOffset(
         spec,
         [res EXCEPT !.dst_abbr = a[2], !.dst_offset = res.std_offset + (60 * 60)],
         IF At(spec, a[1]) # ","
           THEN ParseOffset(spec, a[1], 0, 24, -1)
           ELSE <<a[1], res.std_offset + (60 * 60)>>)

\* lines 200-202: the standard offset
ParsePosixSpecStdOffset(spec, res, o) ==
  IF o[1] = 0 THEN [ok |-> FALSE, res |-> res]
  ELSE IF o[1] = Len(spec) + 1
    THEN [ok |-> TRUE, res |-> [res EXCEPT !.std_offset = o[2]]]
  ELSE ParsePosixSpecDst(spec, [res EXCEPT !.std_offset = o[2]],
                         ParseAbbr(spec, o[1]))

\* lines 197-198: the standard abbreviation
ParsePosixSpecStd(spec, res, a) ==
  IF a[1] = 0 THEN [ok |-> FALSE, res |-> res]
  ELSE ParsePosixSpecStdOffset(spec, [res EXCEPT !.std_abbr = a[2]],
                               ParseOffset(spec, a[1], 0, 24, -1))

\* ParsePosixSpec(spec, res) into a fresh PosixTimeZone: what it returns
\* and what it leaves in *res
BadParsePosixSpec(spec) ==
  ParsePosixSpecStd(spec, NoPosixTimeZone, ParseAbbr(spec, 1))
ParsePosixSpec(spec) ==
  IF At(spec, 1) = ":"
    THEN [ok |-> FALSE, res |-> NoPosixTimeZone]
    ELSE ParsePosixSpecStd(spec, NoPosixTimeZone, ParseAbbr(spec, 1))

----------------------------------------------------------------------------
(* cctz_info.cc: TimeZoneInfo.  Of the zoneinfo file, tzfile is the data    *)
(* block Load decodes (the 4-byte data of a file whose version byte is 0,   *)
(* else the 8-byte data): transition times, their type indices and the      *)
(* transition types; abbreviations are left out.  tzhead is the rest: the   *)
(* header fields Load tests and the POSIX-TZ footer.  The transitions Load  *)
(* generates from the footer lie up to 400 years ahead, so their times are   *)
(* kept as days and seconds, apart from transitions_, in future_.           *)
(* MakeTimeInfo is modelled over the file's transitions only.               *)

\* MakeUnique, MakeSkipped, MakeRepeated
MakeUnique(unix_time, normalized) ==
  [kind |-> "UNIQUE", pre |-> unix_time, trans |-> unix_time,
   post |-> unix_time, normalized |-> normalized]
BadMakeSkipped(tr, dt, normalized) ==
  [kind |-> "SKIPPED",
   pre |-> tr.unix_time - (tr.date_time - dt),
   trans |-> tr.unix_time,
   post |-> tr.unix_time - 1 + (dt - tr.prev_date_time),
   normalized |-> normalized]
MakeSkipped(tr, dt, normalized) ==
  [kind |-> "SKIPPED",
   pre |-> tr.unix_time - 1 + (dt - tr.prev_date_time),
   trans |-> tr.unix_time,
   post |-> tr.unix_time - (tr.date_time - dt),
   normalized |-> normalized]
BadMakeRepeated(tr, dt, normalized) ==
  [kind |-> "REPEATED",
   pre |-> tr.unix_time + (dt - tr.date_time),
   trans |-> tr.unix_time,
   post |-> tr.unix_time - 1 - (tr.prev_date_time - dt),
   normalized |-> normalized]
MakeRepeated(tr, dt, normalized) ==
  [kind |-> "REPEATED",
   pre |-> tr.unix_time - 1 - (tr.prev_date_time - dt),
   trans |-> tr.unix_time,
   post |-> tr.unix_time + (dt - tr.date_time),
   normalized |-> normalized]

\* Transition::ByUnixTime, Transition::ByDateTime
ByUnixTime(lhs, rhs) == lhs.unix_time < rhs.unix_time
ByDateTime(lhs, rhs) == lhs.date_time < rhs.date_time

\* Load, lines 436-468: the decoded file passes validation
BadValidFile(f) ==
  /\ \A i \in 2..Len(f.trans) : ByUnixTime(f.trans[i - 1], f.trans[i])
  /\ \A i \in 1..Len(f.trans) : f.trans[i].type_index < Len(f.types)
  /\ \A i \in 1..Len(f.types) :
       ~(f.types[i].utc_offset > SECSPERDAY
           \/ f.types[i].utc_offset < -SECSPERDAY)
ValidFile(f) ==
  /\ \A i \in 2..Len(f.trans) : ByUnixTime(f.trans[i - 1], f.trans[i])
  /\ \A i \in 1..Len(f.trans) : f.trans[i].type_index < Len(f.types)
  /\ \A i \in 1..Len(f.types) :
       ~(f.types[i].utc_offset >= SECSPERDAY
           \/ f.types[i].utc_offset <= -SECSPERDAY)

\* Load, lines 470-483: the before-first-transition type.  Indices are the
\* file's (0-based); types[i + 1] is transition_types_[i].
BadDefaultDown(types, index) == index
RECURSIVE DefaultDown(_, _)
DefaultDown(types, index) ==
  IF index # 0 /\ types[index + 1].is_dst
    THEN DefaultDown(types, index - 1) ELSE index
RECURSIVE DefaultUp(_, _)
DefaultUp(types, index) ==
  IF index # Len(types) /\ types[index + 1].is_dst
    THEN DefaultUp(types, index + 1) ELSE index
DefaultTransitionType(f) ==
  LET seen_type_0 == \E i \in 1..Len(f.trans) : f.trans[i].type_index = 0
      start == IF f.types[1].is_dst
                 THEN DefaultDown(f.types, f.trans[1].type_index) ELSE 0
  IN IF seen_type_0 /\ Len(f.trans) # 0
       THEN (IF DefaultUp(f.types, start) # Len(f.types)
               THEN DefaultUp(f.types, start) ELSE 0)
       ELSE 0

\* Load, lines 580-586: the local civil time of each transition and of the
\* second before it
WithDateTimes(f, default_type) ==
  [i \in 1..Len(f.trans) |->
     LET tr == f.trans[i]
         ttp == IF i = 1 THEN f.types[default_type + 1]
                ELSE f.types[f.trans[i - 1].type_index + 1]
     IN [unix_time |-> tr.unix_time,
         type_index |-> tr.type_index,
         prev_date_time |-> DateTimeAssign(LocalTime(tr.unix_time, ttp)) - 1,
         date_time |->
           DateTimeAssign(LocalTime(tr.unix_time, f.types[tr.type_index + 1]))]]

\* Load, lines 587-593: the transitions are ordered by date/time
OrderedByDateTime(trs) ==
  \A i \in 2..Len(trs) : ByDateTime(trs[i - 1], trs[i])

\* std::upper_bound(begin, end, target, comp): the 0-based index of the
\* first transition that target compares before, or the count
Compare(comp, lhs, rhs) ==
  IF comp = "ByUnixTime" THEN ByUnixTime(lhs, rhs) ELSE ByDateTime(lhs, rhs)
BadUpperBound(trs, comp, target) ==
  IF \E i \in 1..Len(trs) : Compare(comp, target, trs[i])
    THEN CHOOSE i \in 1..Len(trs) :
           /\ Compare(comp, target, trs[i])
           /\ \A j \in 1..(i - 1) : ~Compare(comp, target, trs[j])
    ELSE Len(trs)
UpperBound(trs, comp, target) ==
  IF \E i \in 1..Len(trs) : Compare(comp, target, trs[i])
    THEN (CHOOSE i \in 1..Len(trs) :
            /\ Compare(comp, target, trs[i])
            /\ \A j \in 1..(i - 1) : ~Compare(comp, target, trs[j])) - 1
    ELSE Len(trs)

\* TimeZoneInfo::BreakTime: the 0-based index of the transition type used
\* and the new local_time_hint_
BadBreakTimeType(unix_time) ==
  LET timecnt == Len(transitions_)
      hint == local_time_hint_
      tr == UpperBound(transitions_, "ByUnixTime",
                       [unix_time |-> unix_time])
  IN IF timecnt = 0 \/ unix_time < transitions_[1].unix_time
       THEN <<default_transition_type_, hint>>
     ELSE IF unix_time >= transitions_[timecnt].unix_time
       THEN <<transitions_[timecnt].type_index, hint>>
     ELSE IF /\ 0 < hint /\ hint < timecnt
             /\ unix_time < transitions_[hint + 1].unix_time
       THEN <<transitions_[hint].type_index, hint>>
     ELSE <<transitions_[tr].type_index, tr>>
BreakTimeType(unix_time) ==
  LET timecnt == Len(transitions_)
      hint == local_time_hint_
      tr == UpperBound(transitions_, "ByUnixTime",
                       [unix_time |-> unix_time])
  IN IF timecnt = 0 \/ unix_time < transitions_[1].unix_time
       THEN <<default_transition_type_, hint>>
     ELSE IF unix_time >= transitions_[timecnt].unix_time
       THEN <<transitions_[timecnt].type_index, hint>>
     ELSE IF /\ 0 < hint /\ hint < timecnt
             /\ unix_time < transitions_[hint + 1].unix_time
             /\ ~(unix_time < transitions_[hint].unix_time)
       THEN <<transitions_[hint].type_index, hint>>
     ELSE <<transitions_[tr].type_index, tr>>

\* An int64_t count of seconds too large for the checker's integers, kept
\* as <<whole days, seconds of the day>>; Wide(t) is t so kept.
Wide(t) == <<t \div SECSPERDAY, t % SECSPERDAY>>
WidePlus(w, n) == <<w[1] + (w[2] + n) \div SECSPERDAY, (w[2] + n) % SECSPERDAY>>
WideLess(a, b) == a[1] < b[1] \/ (a[1] = b[1] /\ a[2] < b[2])

\* Load, lines 393-427: the headers pass.  magic8 and version8 are read from
\* the header of the 8-byte data; the counts are those of the header built
\* last, and hdr.timecnt and hdr.typecnt are the lengths of the data modelled.
BadHeaderOk(h, f) ==
  /\ h.magic
  /\ h.version # 0
  /\ h.magic8 /\ h.version8 # 0
  /\ ~(Len(f.types) <= 0)
  /\ ~(h.leapcnt # 0)
  /\ ~(h.ttisstdcnt # 0 /\ h.ttisstdcnt # Len(f.types))
  /\ ~(h.ttisgmtcnt # 0 /\ h.ttisgmtcnt # Len(f.types))
HeaderOk(h, f) ==
  /\ h.magic
  /\ h.version # 0 => (h.magic8 /\ h.version8 # 0)
  /\ ~(Len(f.types) <= 0)
  /\ ~(h.leapcnt # 0)
  /\ ~(h.ttisstdcnt # 0 /\ h.ttisstdcnt # Len(f.types))
  /\ ~(h.ttisgmtcnt # 0 /\ h.ttisgmtcnt # Len(f.types))

\* Load, lines 497-508: reading the NL-enclosed future_spec_ succeeds; nl is
\* "the next byte is a newline", closed "a second newline comes before EOF"
FutureSpecRead(h) == h.version # 0 => (h.tail.nl /\ h.tail.closed)
FutureSpec(h) == IF h.version # 0 THEN h.tail.spec ELSE <<>>

\* Load, lines 513-532: the transitions are extended
BadExtends(f, h) ==
  /\ FutureSpec(h) # <<>>
  /\ ParsePosixSpec(FutureSpec(h)).ok
  /\ ParsePosixSpec(FutureSpec(h)).res.dst_abbr # <<>>
  /\ ~(Len(f.trans) < 2)
Extends(f, h) ==
  /\ FutureSpec(h) # <<>>
  /\ ParsePosixSpec(FutureSpec(h)).ok
  /\ ParsePosixSpec(FutureSpec(h)).res.dst_abbr # <<>>
  /\ ~(Len(f.trans) < 2)
  /\ ~(f.trans[Len(f.trans)].unix_time < 0)

\* The PosixTransition that cctz_info.cc reads (pt.month, pt.week,
\* pt.weekday, pt.offset): an Mm.w.d rule as the parser leaves it
PosixTransitionOf(t) ==
  [month |-> t.date.month, week |-> t.date.week, weekday |-> t.date.weekday,
   offset |-> t.offset]

\* TransOffset(leap_year, jan1_weekday, pt), lines 214-222: the days
TransOffsetDays(last_week, days, weekday, pt) ==
  IF last_week
    THEN days - (((weekday + 7 - 1 - pt.weekday) % 7) + 1)
    ELSE days + ((pt.weekday + 7 - weekday) % 7) + (pt.week - 1) * 7
TransOffset(leap_year, jan1_weekday, pt) ==
  TransOffsetDays(pt.week = 5,
                  kMonthOffsets(leap_year, pt.month + B2I(pt.week = 5)),
                  (jan1_weekday
                     + kMonthOffsets(leap_year, pt.month + B2I(pt.week = 5))) % 7,
                  pt) * SECSPERDAY
    + pt.offset

\* kDaysPerYear[leap_year], which is kSecPerYear[leap_year] / SECSPERDAY
kDaysPerYear(leap_year) == IF leap_year THEN 366 ELSE DAYSPERNYEAR

\* Load, lines 563-567: the loop's variables a year on.  jan1_day is
\* jan1_time / SECSPERDAY.
NextYear(s) ==
  [last_year |-> s.last_year + 1,
   jan1_day |-> s.jan1_day + kDaysPerYear(s.leap_year),
   jan1_weekday |-> (s.jan1_weekday + kDaysPerYear(s.leap_year)) % 7,
   leap_year |-> ~s.leap_year /\ IsLeap(s.last_year + 1)]

\* Load, lines 568-573: the two transitions of the year s; x holds what the
\* loop does not change
GeneratedOfYear(s, x) ==
  <<[unix_time |->
       WidePlus(<<s.jan1_day, 0>>,
                TransOffset(s.leap_year, s.jan1_weekday, x.pt1)
                  - x.tt0.utc_offset),
     type_index |-> x.tr1.type_index],
    [unix_time |->
       WidePlus(<<s.jan1_day, 0>>,
                TransOffset(s.leap_year, s.jan1_weekday, x.pt0)
                  - x.tt1.utc_offset),
     type_index |-> x.tr0.type_index]>>

\* Load, lines 563-574: the loop, taken as 20 runs of 20 years each
RECURSIVE GeneratedLoop(_, _, _)
GeneratedLoop(n, s, x) ==
  IF n = 0 THEN <<>>
  ELSE GeneratedOfYear(NextYear(s), x) \o GeneratedLoop(n - 1, NextYear(s), x)
RECURSIVE AdvanceYears(_, _)
AdvanceYears(n, s) == IF n = 0 THEN s ELSE AdvanceYears(n - 1, NextYear(s))
RECURSIVE GeneratedRuns(_, _, _)
GeneratedRuns(runs, s, x) ==
  IF runs = 0 THEN <<>>
  ELSE GeneratedLoop(20, s, x) \o GeneratedRuns(runs - 1, AdvanceYears(20, s), x)

\* Load, lines 538-562: what the loop starts from
GeneratedFrom(last_year, x) ==
  GeneratedRuns(400 \div 20,
                [last_year |-> last_year,
                 jan1_day |-> DayOrdinal(last_year, 1, 1),
                 jan1_weekday |-> (4 + DayOrdinal(last_year, 1, 1)) % 7,
                 leap_year |-> IsLeap(last_year)],
                x)
GeneratedWith(f, posix_tz, tr0, tr1, tt0, tt1) ==
  GeneratedFrom(
    LocalTime(tr0.unix_time, tt0).year,
    [tr0 |-> tr0, tr1 |-> tr1, tt0 |-> tt0, tt1 |-> tt1,
     pt1 |-> PosixTransitionOf(IF tt0.is_dst THEN posix_tz.dst_end
                               ELSE posix_tz.dst_start),
     pt0 |-> PosixTransitionOf(IF tt0.is_dst THEN posix_tz.dst_start
                               ELSE posix_tz.dst_end)])

\* Load, lines 533-575: transitions_[hdr.timecnt ..] when the transitions
\* are extended
Generated(f, h) ==
  GeneratedWith(f, ParsePosixSpec(FutureSpec(h)).res,
                f.trans[Len(f.trans)], f.trans[Len(f.trans) - 1],
                f.types[f.trans[Len(f.trans)].type_index + 1],
                f.types[f.trans[Len(f.trans) - 1].type_index + 1])

\* LocalTime(unix_time, tt) for a unix_time >= 0 kept as days and seconds
LocalTimeWide(w, tt) ==
  LocalTime100Years(
    2000 + 400 * ((WidePlus(w, tt.utc_offset)[1] - 10957) \div 146097),
    (WidePlus(w, tt.utc_offset)[1] - 10957) % 146097,
    WidePlus(w, tt.utc_offset)[2],
    6, TRUE, tt)

\* DateTime::Assign(bd) with the offset kept as days and seconds
DateTimeAssignWide(b) ==
  <<DayOrdinal(b.year, b.month, b.day),
    b.hour * 3600 + b.minute * 60 + b.second>>

\* Load, lines 580-586, for the generated transitions; last_type is the
\* type index of the last transition of the file
GeneratedWithDateTimes(f, gen, last_type) ==
  [i \in 1..Len(gen) |->
     [unix_time |-> gen[i].unix_time,
      type_index |-> gen[i].type_index,
      prev_date_time |->
        WidePlus(DateTimeAssignWide(
                   LocalTimeWide(gen[i].unix_time,
                                 f.types[(IF i = 1 THEN last_type
                                          ELSE gen[i - 1].type_index) + 1])),
                 -1),
      date_time |->
        DateTimeAssignWide(
          LocalTimeWide(gen[i].unix_time, f.types[gen[i].type_index + 1]))]]

\* Load, lines 587-593, from the last transition of the file on
GeneratedOrdered(trs, gen) ==
  /\ WideLess(Wide(trs[Len(trs)].date_time), gen[1].date_time)
  /\ \A i \in 2..Len(gen) : WideLess(gen[i - 1].date_time, gen[i].date_time)

\* The transitions Load generates for file f with headers and tail h
FutureOf(f, h) ==
  GeneratedWithDateTimes(f, Generated(f, h), f.trans[Len(f.trans)].type_index)

\* Load, lines 393-508: the file is read and its data pass validation
BadLoadReads(f, h) ==
  /\ HeaderOk(h, f) /\ ValidFile(f) /\ FutureSpecRead(h)
  /\ FutureSpec(h) # <<>> => ParsePosixSpec(FutureSpec(h)).ok
LoadReads(f, h) == HeaderOk(h, f) /\ ValidFile(f) /\ FutureSpecRead(h)

\* Load, lines 580-595: every transition is after its predecessor by
\* date/time; gen is the transitions generated, if any
LoadOrdered(f, gen) ==
  /\ OrderedByDateTime(WithDateTimes(f, DefaultTransitionType(f)))
  /\ gen # <<>> =>
       GeneratedOrdered(WithDateTimes(f, DefaultTransitionType(f)), gen)

\* transitions_[i - 1] of the code, i in 1..timecnt, with unix_time as days
\* and seconds
TransitionAt(i) ==
  IF i <= Len(transitions_)
    THEN [unix_time |-> Wide(transitions_[i].unix_time),
          type_index |-> transitions_[i].type_index]
    ELSE [unix_time |-> future_[i - Len(transitions_)].unix_time,
          type_index |-> future_[i - Len(transitions_)].type_index]

\* std::upper_bound by unix_time over the extended transitions
UpperBoundExtended(timecnt, w) ==
  IF \E i \in 1..timecnt : WideLess(w, TransitionAt(i).unix_time)
    THEN (CHOOSE i \in 1..timecnt :
            /\ WideLess(w, TransitionAt(i).unix_time)
            /\ \A j \in 1..(i - 1) : ~WideLess(w, TransitionAt(j).unix_time))
         - 1
    ELSE timecnt

\* TimeZoneInfo::BreakTime when extended_: the 0-based index of the
\* transition type used and the new local_time_hint_.  The generated
\* transitions reach 400 years past the file's last, which is not before
\* 1970, so an instant at or after the last of them (lines 764-771) is none
\* the checker's integers hold; no index is given for it.
BreakTimeTypeExtended(unix_time, timecnt, hint) ==
  IF unix_time < transitions_[1].unix_time
    THEN <<default_transition_type_, hint>>
  ELSE IF ~WideLess(Wide(unix_time), TransitionAt(timecnt).unix_time)
    THEN <<-1, hint>>
  ELSE IF /\ 0 < hint /\ hint < timecnt
          /\ WideLess(Wide(unix_time), TransitionAt(hint + 1).unix_time)
          /\ ~WideLess(Wide(unix_time), TransitionAt(hint).unix_time)
    THEN <<TransitionAt(hint).type_index, hint>>
  ELSE <<TransitionAt(UpperBoundExtended(timecnt, Wide(unix_time))).type_index,
         UpperBoundExtended(timecnt, Wide(unix_time))>>

\* TimeZoneInfo::BreakTime: the type index and the hint, extended or not
BreakTimeIndex(unix_time) ==
  IF extended_
    THEN BreakTimeTypeExtended(unix_time, Len(transitions_) + Len(future_),
                               local_time_hint_)
    ELSE BreakTimeType(unix_time)

\* TimeZoneInfo::MakeTimeInfo, lines 809-831: the 0-based index of the first
\* transition after dt and the new time_local_hint_
FirstAfter(dt) ==
  LET timecnt == Len(transitions_)
      hint == time_local_hint_
      tr == UpperBound(transitions_, "ByDateTime", [date_time |-> dt])
  IN IF dt < transitions_[1].date_time THEN <<0, hint>>
     ELSE IF ~(dt < transitions_[timecnt].date_time) THEN <<timecnt, hint>>
     ELSE IF /\ 0 < hint /\ hint < timecnt
             /\ dt < transitions_[hint + 1].date_time
             /\ ~(dt < transitions_[hint].date_time)
       THEN <<hint, hint>>
     ELSE <<tr, tr>>

\* TimeZoneInfo::MakeTimeInfo, lines 833-872: the TimeInfo, given the index
\* tr of the first transition after dt
Classify(dt, normalized, tr) ==
  LET timecnt == Len(transitions_)
      default_offset ==
        transition_types_[default_transition_type_ + 1].utc_offset
  IN IF tr = 0
       THEN IF ~(transitions_[1].prev_date_time < dt)
              THEN MakeUnique(dt - default_offset, normalized)
              ELSE MakeSkipped(transitions_[1], dt, normalized)
     ELSE IF tr = timecnt
       THEN IF transitions_[tr].prev_date_time < dt
              THEN MakeUnique(transitions_[tr].unix_time
                                + (dt - transitions_[tr].date_time),
                              normalized)
              ELSE MakeRepeated(transitions_[tr], dt, normalized)
     ELSE IF transitions_[tr + 1].prev_date_time < dt
       THEN MakeSkipped(transitions_[tr + 1], dt, normalized)
     ELSE IF ~(transitions_[tr].prev_date_time < dt)
       THEN MakeRepeated(transitions_[tr], dt, normalized)
     ELSE MakeUnique(transitions_[tr].unix_time
                       + (dt - transitions_[tr].date_time),
                     normalized)

\* TimeZoneInfo::MakeTimeInfo(year, mon, day, hour, min, sec): the TimeInfo
\* and the new time_local_hint_
MakeTimeInfo(year, mon, day, hour, min, sec) ==
  LET n == Normalize(year, mon, day, hour, min, sec)
  IN IF Len(transitions_) = 0
       THEN <<MakeUnique(
                n.offset
                  - transition_types_[default_transition_type_ + 1].utc_offset,
                n.normalized),
              time_local_hint_>>
       ELSE <<Classify(n.offset, n.normalized, FirstAfter(n.offset)[1]),
              FirstAfter(n.offset)[2]>>

----------------------------------------------------------------------------
(* cctz.h (src/unnamed/part_000): Format and Parse.  The templates of      *)
(* lines 303-349 are translated from their code.  The two functions they   *)
(* call, Format(format, tp, ns, tz) and Parse(format, input, tz, &tp,      *)
(* &ns), are declared in lines 326-327 and 336-337 and defined in none of  *)
(* the source files; they are written after the header's description of    *)
(* them (lines 221-287) and the description of the formatter and the       *)
(* parser in the specification (sections 4.8 and 4.9).  Text is a sequence *)
(* of characters; a format is the sequence of its specifiers and literal   *)
(* characters.                                                             *)

\* std::chrono::nanoseconds per seconds64
kNanos == 1000 * 1000 * 1000

\* const char RFC3339_full[] = "%Y-%m-%dT%H:%M:%E*S%Ez";
RFC3339_full ==
  <<"%Y", "-", "%m", "-", "%d", "T", "%H", ":", "%M", ":", "%E*S", "%Ez">>
\* const char RFC3339_sec[] = "%Y-%m-%dT%H:%M:%S%Ez";
RFC3339_sec ==
  <<"%Y", "-", "%m", "-", "%d", "T", "%H", ":", "%M", ":", "%S", "%Ez">>
\* "%Y-%m-%d %H:%M:%S", a format without an offset
CivilFormat ==
  <<"%Y", "-", "%m", "-", "%d", " ", "%H", ":", "%M", ":", "%S">>

\* internal::FloorSeconds(tp), lines 302-312: time_point_cast truncates
\* toward zero, so sec is tp[1] and sub is tp[2]; a negative sub is moved
\* into the second before.  <<sec, sub>>.
BadFloorSeconds(tp) ==
  IF tp[2] < 0 THEN <<tp[1], tp[2] + kNanos>> ELSE tp
FloorSeconds(tp) ==
  IF tp[2] < 0 THEN <<tp[1] - 1, tp[2] + kNanos>> ELSE tp

\* BreakTime(tp, tz): TimeZone::Impl::BreakTime calls the zone's BreakTime
BreakTime(unix_time) ==
  LocalTime(unix_time, transition_types_[BreakTimeIndex(unix_time)[1] + 1])

\* The decimal digit n
DigitChar(n) == <<"0", "1", "2", "3", "4", "5", "6", "7", "8", "9">>[n + 1]

\* The digits of n >= 0, as many as it takes
RECURSIVE FormatDigits(_)
FormatDigits(n) ==
  IF n < 10 THEN <<DigitChar(n)>>
  ELSE Append(FormatDigits(n \div 10), DigitChar(n % 10))

\* Two digits, zero-padded
Format02d(n) == <<DigitChar((n \div 10) % 10), DigitChar(n % 10)>>

\* %Y: as many characters as it takes to render the year
FormatYear(year) ==
  IF year < 0 THEN <<"-">> \o FormatDigits(-year) ELSE FormatDigits(year)

\* The nine digits of the nanoseconds, without trailing zeros
RECURSIVE StripZeros(_)
StripZeros(digits) ==
  IF digits # <<>> /\ digits[Len(digits)] = "0"
    THEN StripZeros(SubSeq(digits, 1, Len(digits) - 1))
    ELSE digits
NineDigits(ns) ==
  Format02d(ns \div 10000000) \o Format02d((ns \div 100000) % 100)
    \o Format02d((ns \div 1000) % 100) \o Format02d((ns \div 10) % 100)
    \o <<DigitChar(ns % 10)>>

\* %E*S: the seconds, and the fraction in full precision if there is one
FormatSubSeconds(ns) ==
  IF StripZeros(NineDigits(ns)) = <<>> THEN <<>>
  ELSE <<".">> \o StripZeros(NineDigits(ns))

\* %z and %Ez: sign, hours and minutes of the offset; the minutes are
\* truncated, the seconds of the offset dropped
FormatOffset(offset, sep) ==
  (IF offset < 0 THEN <<"-">> ELSE <<"+">>)
    \o Format02d(((IF offset < 0 THEN -offset ELSE offset) \div 60) \div 60)
    \o sep
    \o Format02d(((IF offset < 0 THEN -offset ELSE offset) \div 60) % 60)

\* One specifier or literal character of the format
FormatSpecifier(spec, b, ns) ==
  CASE spec = "%Y" -> FormatYear(b.year)
    [] spec = "%m" -> Format02d(b.month)
    [] spec = "%d" -> Format02d(b.day)
    [] spec = "%H" -> Format02d(b.hour)
    [] spec = "%M" -> Format02d(b.minute)
    [] spec = "%S" -> Format02d(b.second)
    [] spec = "%E*S" -> Format02d(b.second) \o FormatSubSeconds(ns)
    [] spec = "%z" -> FormatOffset(b.offset, <<>>)
    [] spec = "%Ez" -> FormatOffset(b.offset, <<":">>)
    [] OTHER -> <<spec>>

RECURSIVE FormatLoop(_, _, _, _)
FormatLoop(format, i, b, ns) ==
  IF i > Len(format) THEN <<>>
  ELSE FormatSpecifier(format[i], b, ns) \o FormatLoop(format, i + 1, b, ns)

\* Format(format, tp, ns, tz): the civil time of tp in tz, rendered
Format(format, tp, ns) == FormatLoop(format, 1, BreakTime(tp), ns)

\* template Format(format, tp, tz), lines 328-334
FormatD(format, tp) ==
  Format(format, FloorSeconds(tp)[1], FloorSeconds(tp)[2])

\* The fields Parse starts from: 1970-01-01 00:00:00.0 +0000.  p is the
\* position in the input, 0 once the input has failed to match.
ParseStart ==
  [p |-> 1, year |-> 1970, month |-> 1, day |-> 1, hour |-> 0, minute |-> 0,
   second |-> 0, subseconds |-> 0, offset |-> 0, saw_offset |-> FALSE]

\* The number of digits at p, at most width
RECURSIVE DigitRun(_, _, _)
DigitRun(s, p, width) ==
  IF width = 0 \/ DigitOf(At(s, p)) < 0 THEN 0
  ELSE 1 + DigitRun(s, p + 1, width - 1)

\* The value of the n digits at p
RECURSIVE DigitValue(_, _, _)
DigitValue(s, p, n) ==
  IF n = 0 THEN 0
  ELSE DigitValue(s, p, n - 1) * 10 + DigitOf(At(s, p + n - 1))

\* A numeric field of at most width digits with a value in min..max:
\* <<position after it, value>>, position 0 if there is none
ParseNumber(s, p, width, min, max) ==
  IF DigitRun(s, p, width) = 0 THEN Nullptr
  ELSE IF DigitValue(s, p, DigitRun(s, p, width)) < min
          \/ DigitValue(s, p, DigitRun(s, p, width)) > max THEN Nullptr
  ELSE <<p + DigitRun(s, p, width), DigitValue(s, p, DigitRun(s, p, width))>>

\* %Y: an optional '-' and as many digits as there are; "-0" is no year
ParseYear(s, p) ==
  IF At(s, p) = "-"
    THEN IF DigitRun(s, p + 1, Len(s)) = 0 THEN Nullptr
         ELSE IF DigitValue(s, p + 1, DigitRun(s, p + 1, Len(s))) = 0
           THEN Nullptr
         ELSE <<p + 1 + DigitRun(s, p + 1, Len(s)),
                -DigitValue(s, p + 1, DigitRun(s, p + 1, Len(s)))>>
    ELSE IF DigitRun(s, p, Len(s)) = 0 THEN Nullptr
    ELSE <<p + DigitRun(s, p, Len(s)),
           DigitValue(s, p, DigitRun(s, p, Len(s)))>>

\* The fraction after the '.' at p - 1: its first nine digits as
\* nanoseconds, the rest skipped
ParseSubSeconds(s, p) ==
  IF DigitRun(s, p, Len(s)) = 0 THEN Nullptr
  ELSE <<p + DigitRun(s, p, Len(s)),
         DigitValue(s, p, DigitRun(s, p, 9)) * 10 ^ (9 - DigitRun(s, p, 9))>>

\* The minutes of %z and %Ez after the hours, which end before q: two
\* digits, after a ':' if colon allows one, or nothing
ParseZoneMinutes(s, q, colon) ==
  IF colon /\ At(s, q) = ":" THEN
    (IF DigitRun(s, q + 1, 2) = 2 THEN <<q + 3, DigitValue(s, q + 1, 2)>>
     ELSE Nullptr)
  ELSE IF DigitRun(s, q, 2) = 2 THEN <<q + 2, DigitValue(s, q, 2)>>
  ELSE IF DigitRun(s, q, 2) = 1 THEN Nullptr
  ELSE <<q, 0>>

\* %z and %Ez: +-HHMM or +-HH, for %Ez also +-HH:MM and Z; the offset in
\* seconds
ParseZoneOffset(s, p, colon) ==
  IF colon /\ At(s, p) = "Z" THEN <<p + 1, 0>>
  ELSE IF At(s, p) \notin {"+", "-"} THEN Nullptr
  ELSE IF DigitRun(s, p + 1, 2) # 2 THEN Nullptr
  ELSE IF ParseZoneMinutes(s, p + 3, colon)[1] = 0 THEN Nullptr
  ELSE <<ParseZoneMinutes(s, p + 3, colon)[1],
         (IF At(s, p) = "-" THEN -1 ELSE 1)
           * (DigitValue(s, p + 1, 2) * 3600
              + ParseZoneMinutes(s, p + 3, colon)[2] * 60)>>

\* The position after the whitespace at p
RECURSIVE SkipSpace(_, _)
SkipSpace(s, p) == IF At(s, p) = " " THEN SkipSpace(s, p + 1) ELSE p

\* A parsed field stored: the position moves on, or the parse has failed
ParseStore(st, r, field) ==
  IF r[1] = 0 THEN [st EXCEPT !.p = 0]
  ELSE [[st EXCEPT !.p = r[1]] EXCEPT ![field] = r[2]]

\* %E*S: the seconds and, after a '.', the fraction
ParseSeconds(s, st, r) ==
  IF r[1] = 0 THEN [st EXCEPT !.p = 0]
  ELSE IF At(s, r[1]) = "."
    THEN ParseStore([st EXCEPT !.second = r[2]],
                    ParseSubSeconds(s, r[1] + 1), "subseconds")
  ELSE [st EXCEPT !.p = r[1], !.second = r[2]]

\* One specifier or literal character of the format against the input
ParseSpecifier(spec, s, st) ==
  CASE spec = "%Y" -> ParseStore(st, ParseYear(s, st.p), "year")
    [] spec = "%m" -> ParseStore(st, ParseNumber(s, st.p, 2, 1, 12), "month")
    [] spec = "%d" -> ParseStore(st, ParseNumber(s, st.p, 2, 1, 31), "day")
    [] spec = "%H" -> ParseStore(st, ParseNumber(s, st.p, 2, 0, 23), "hour")
    [] spec = "%M" -> ParseStore(st, ParseNumber(s, st.p, 2, 0, 59), "minute")
    [] spec = "%S" -> ParseStore(st, ParseNumber(s, st.p, 2, 0, 60), "second")
    [] spec = "%E*S" -> ParseSeconds(s, st, ParseNumber(s, st.p, 2, 0, 60))
    [] spec = "%z" ->
         ParseStore([st EXCEPT !.saw_offset = TRUE],
                    ParseZoneOffset(s, st.p, FALSE), "offset")
    [] spec = "%Ez" ->
         ParseStore([st EXCEPT !.saw_offset = TRUE],
                    ParseZoneOffset(s, st.p, TRUE), "offset")
    [] spec = " " -> [st EXCEPT !.p = SkipSpace(s, st.p)]
    [] OTHER -> IF At(s, st.p) = spec THEN [st EXCEPT !.p = st.p + 1]
                ELSE [st EXCEPT !.p = 0]

RECURSIVE ParseLoop(_, _, _, _)
ParseLoop(format, i, s, st) ==
  IF st.p = 0 \/ i > Len(format) THEN st
  ELSE ParseLoop(format, i + 1, s, ParseSpecifier(format[i], s, st))

\* What Parse returns and leaves in *tp and *ns; hint is time_local_hint_
\* afterwards
ParseFailed == [ok |-> FALSE, tp |-> 0, ns |-> 0, hint |-> time_local_hint_]

\* The fields as an instant: in UTC, shifted by the offset, if the format
\* had %z or %Ez, otherwise in the zone, taking TimeInfo::pre.  A second
\* of 60 is the first second of the next minute, without its fraction.
ParseInstant(st, leap) ==
  IF st.saw_offset
    THEN [ok |-> TRUE,
          tp |-> DayOrdinal(st.year, st.month, st.day) * SECSPERDAY
                 + st.hour * 3600 + st.minute * 60 + st.second + leap
                 - st.offset,
          ns |-> IF leap = 1 THEN 0 ELSE st.subseconds,
          hint |-> time_local_hint_]
    ELSE [ok |-> TRUE,
          tp |-> MakeTimeInfo(st.year, st.month, st.day, st.hour, st.minute,
                              st.second)[1].pre + leap,
          ns |-> IF leap = 1 THEN 0 ELSE st.subseconds,
          hint |-> MakeTimeInfo(st.year, st.month, st.day, st.hour,
                                st.minute, st.second)[2]]

\* After the last specifier: trailing whitespace is skipped, anything else
\* left over is an error, and so is a day the month does not have
ParseFinish(s, st) ==
  IF st.p = 0 \/ SkipSpace(s, st.p) # Len(s) + 1 THEN ParseFailed
  ELSE IF st.day > kDaysPerMonth(IsLeap(st.year), st.month) THEN ParseFailed
  ELSE IF st.second = 60 THEN ParseInstant([st EXCEPT !.second = 59], 1)
  ELSE ParseInstant(st, 0)

\* Parse(format, input, tz, &tp, &ns) called with *tp = 0 and *ns = 0
Parse(format, input) ==
  ParseFinish(input, ParseLoop(format, 1, input, ParseStart))

\* time_point_cast<D>(tp) + duration_cast<D>(ns), lines 345-346, with D
\* nanoseconds: the count tp * 10^9 + ns
TimePointOf(tp, ns) ==
  IF tp < 0 /\ ns > 0 THEN <<tp + 1, ns - kNanos>> ELSE <<tp, ns>>

\* template Parse(format, input, tz, tpp), lines 338-349: *tpp afterwards,
\* where res is what the call of line 343 returned and left in tp and ns
BadParseAssign(res, old) == TimePointOf(res.tp, res.ns)
ParseAssign(res, old) ==
  IF res.ok THEN TimePointOf(res.tp, res.ns) ELSE old

----------------------------------------------------------------------------
(* The zone operations as steps.                                            *)

MaxTrans == 2
MaxTypes == 3
MaxQueries == 1

\* 2000-02-29 00:00:00 UTC; the transitions and queries lie around it.
BaseTime == 11016 * SECSPERDAY

TypeSet ==
  {[utc_offset |-> 0, is_dst |-> FALSE], [utc_offset |-> 3600, is_dst |-> TRUE],
   [utc_offset |-> 7200, is_dst |-> TRUE],
   [utc_offset |-> 3600, is_dst |-> FALSE]}
TransTimes == {BaseTime, BaseTime + 1800, BaseTime + 7200}
SeqsUpTo(S, lo, hi) == UNION {[1..n -> S] : n \in lo..hi}
Files ==
  {[types |-> ty, trans |-> tr] :
     ty \in SeqsUpTo(TypeSet, 2, MaxTypes),
     tr \in SeqsUpTo([unix_time : TransTimes, type_index : 0..(MaxTypes - 1)],
                     0, MaxTrans)}

\* The instants and civil times asked about.
QueryTimes ==
  {BaseTime + d : d \in {-7200, -3601, -3600, -1801, -1, 0, 1, 1799, 1800,
                         3599, 3600, 5400, 7199, 7200, 10800}}
QueryCivils ==
  {Fields(2000, 2, 29, h, ms[1], ms[2]) :
     h \in 0..4, ms \in {<<0, 0>>, <<29, 59>>, <<30, 0>>, <<59, 59>>}}
  \cup {Fields(2000, 3, 0, 1, 0, 0), Fields(2000, 2, 28, 25, 30, 0),
        Fields(2000, 2, 29, 0, 59, 60), Fields(1999, 14, 29, 2, -1, 0)}

\* TimeZoneInfo::Load(name, fp), lines 580-602, with gen the transitions
\* generated, if any
DoLoadOrdered(gen) ==
  IF LoadOrdered(tzfile, gen)
    THEN /\ zstate' = "loaded"
         /\ transition_types_' = tzfile.types
         /\ default_transition_type_' = DefaultTransitionType(tzfile)
         /\ transitions_' =
              WithDateTimes(tzfile, DefaultTransitionType(tzfile))
         /\ extended_' = Extends(tzfile, tzhead)
         /\ future_' = gen
    ELSE /\ zstate' = "failed"
         /\ UNCHANGED <<transition_types_, default_transition_type_,
                        transitions_, extended_, future_>>

\* TimeZoneInfo::Load(name, fp)
DoLoad ==
  /\ zstate = "new"
  /\ IF ~LoadReads(tzfile, tzhead)
       THEN /\ zstate' = "failed"
            /\ UNCHANGED <<transition_types_, default_transition_type_,
                           transitions_, extended_, future_>>
     ELSE IF Extends(tzfile, tzhead)
       THEN \E gen \in {FutureOf(tzfile, tzhead)} : DoLoadOrdered(gen)
     ELSE DoLoadOrdered(<<>>)
  /\ local_time_hint_' = 0
  /\ time_local_hint_' = 0
  /\ zop' = "Load"
  /\ UNCHANGED <<posix_spec, parsed, posix>>
  /\ UNCHANGED fmtVars
  /\ UNCHANGED <<tzfile, tzhead, q_tp, bd, q_civil, ti, nq>>
  /\ UNCHANGED <<regVars, civVars>>

\* TimeZoneInfo::BreakTime(tp)
DoBreakTime(tp) ==
  /\ zstate = "loaded"
  /\ nq < MaxQueries
  /\ nq' = nq + 1
  /\ q_tp' = tp
  /\ bd' = LocalTime(tp, transition_types_[BreakTimeIndex(tp)[1] + 1])
  /\ local_time_hint_' = BreakTimeIndex(tp)[2]
  /\ zop' = "BreakTime"
  /\ UNCHANGED <<posix_spec, parsed, posix>>
  /\ UNCHANGED fmtVars
  /\ UNCHANGED <<tzfile, tzhead, extended_, future_, zstate, transition_types_, transitions_,
                 default_transition_type_, time_local_hint_, q_civil, ti>>
  /\ UNCHANGED <<regVars, civVars>>

\* TimeZoneInfo::MakeTimeInfo(year, mon, day, hour, min, sec)
DoMakeTimeInfo(c) ==
  /\ zstate = "loaded"
  /\ nq < MaxQueries
  /\ nq' = nq + 1
  /\ q_civil' = c
  /\ ti' = MakeTimeInfo(c.y, c.m, c.d, c.hh, c.mm, c.ss)[1]
  /\ time_local_hint_' = MakeTimeInfo(c.y, c.m, c.d, c.hh, c.mm, c.ss)[2]
  /\ zop' = "MakeTimeInfo"
  /\ UNCHANGED <<posix_spec, parsed, posix>>
  /\ UNCHANGED fmtVars
  /\ UNCHANGED <<tzfile, tzhead, extended_, future_, zstate, transition_types_, transitions_,
                 default_transition_type_, local_time_hint_, q_tp, bd>>
  /\ UNCHANGED <<regVars, civVars>>

\* MakeTimeInfo applied to the civil time BreakTime just returned
DoRoundTrip ==
  /\ zstate = "loaded"
  /\ zop = "BreakTime"
  /\ q_civil' = Fields(bd.year, bd.month, bd.day, bd.hour, bd.minute,
                       bd.second)
  /\ ti' = MakeTimeInfo(bd.year, bd.month, bd.day, bd.hour, bd.minute,
                        bd.second)[1]
  /\ time_local_hint_' = MakeTimeInfo(bd.year, bd.month, bd.day, bd.hour,
                                      bd.minute, bd.second)[2]
  /\ zop' = "RoundTrip"
  /\ UNCHANGED <<posix_spec, parsed, posix>>
  /\ UNCHANGED fmtVars
  /\ UNCHANGED <<tzfile, tzhead, extended_, future_, zstate, transition_types_, transitions_,
                 default_transition_type_, local_time_hint_, q_tp, bd, nq>>
  /\ UNCHANGED <<regVars, civVars>>

\* A thread formats tp in the loaded zone with RFC3339_full; BreakTime
\* leaves its hint behind.  Runs format first and parse afterwards.
DoFormat(tp) ==
  /\ zstate = "loaded"
  /\ fop # "Parse"
  /\ fop' = "Format"
  /\ fmt_tp' = tp
  /\ fmt_text' = FormatD(RFC3339_full, tp)
  /\ local_time_hint_' = BreakTimeIndex(FloorSeconds(tp)[1])[2]
  /\ UNCHANGED <<parse_format, parse_input, tpp_before, tpp, parse_ok>>
  /\ UNCHANGED <<posix_spec, parsed, posix>>
  /\ UNCHANGED <<tzfile, tzhead, extended_, future_, zstate,
                 transition_types_, transitions_, default_transition_type_,
                 time_local_hint_, zop, q_tp, bd, q_civil, ti, nq>>
  /\ UNCHANGED <<regVars, civVars>>

\* A thread whose time_point holds old parses input against format; the
\* run ends with it.
DoParse(format, input, old) ==
  /\ zstate = "loaded"
  /\ fop # "Parse"
  /\ fop' = "Parse"
  /\ parse_format' = format
  /\ parse_input' = input
  /\ tpp_before' = old
  /\ \E res \in {Parse(format, input)} :
       /\ tpp' = ParseAssign(res, old)
       /\ parse_ok' = res.ok
       /\ time_local_hint_' = res.hint
  /\ UNCHANGED <<fmt_tp, fmt_text>>
  /\ UNCHANGED <<posix_spec, parsed, posix>>
  /\ UNCHANGED <<tzfile, tzhead, extended_, future_, zstate,
                 transition_types_, transitions_, default_transition_type_,
                 local_time_hint_, zop, q_tp, bd, q_civil, ti, nq>>
  /\ UNCHANGED <<regVars, civVars>>

InitZone ==
  /\ RegIdle
  /\ CivilIdle
  /\ PosixIdle
  /\ FmtIdle
  /\ extended_ = FALSE
  /\ future_ = <<>>
  /\ tzhead = Version1Head
  /\ tzfile \in Files
  /\ zstate = "new"
  /\ transition_types_ = <<>>
  /\ transitions_ = <<>>
  /\ default_transition_type_ = 0
  /\ local_time_hint_ = 0
  /\ time_local_hint_ = 0
  /\ zop = "none"
  /\ q_tp = 0
  /\ bd = NoBreakdown
  /\ q_civil = Fields(1970, 1, 1, 0, 0, 0)
  /\ ti = NoTimeInfo
  /\ nq = 0

NextZone ==
  \/ DoLoad
  \/ \E tp \in QueryTimes : DoBreakTime(tp)
  \/ \E c \in QueryCivils : DoMakeTimeInfo(c)
  \/ DoRoundTrip

SpecZone == InitZone /\ [][NextZone]_vars

\* The transitions at or before unix_time
AtOrBefore(unix_time) ==
  {i \in 1..Len(transitions_) : transitions_[i].unix_time <= unix_time}

\* The greatest of them
GreatestAtOrBefore(unix_time) ==
  CHOOSE i \in AtOrBefore(unix_time) :
    \A j \in AtOrBefore(unix_time) :
      transitions_[j].unix_time <= transitions_[i].unix_time

\* C25: BreakTime uses the default transition type when the table is empty
\* or the instant is before the first transition, and otherwise the type of
\* the greatest transition whose unix_time is <= the instant.
C25_TypeUsed ==
  zop = "BreakTime" =>
    IF AtOrBefore(q_tp) = {}
      THEN /\ bd = LocalTime(q_tp,
                             transition_types_[default_transition_type_ + 1])
           /\ bd.offset =
                transition_types_[default_transition_type_ + 1].utc_offset
      ELSE /\ bd = LocalTime(q_tp,
                transition_types_[
                  transitions_[GreatestAtOrBefore(q_tp)].type_index + 1])
           /\ bd.offset =
                transition_types_[
                  transitions_[GreatestAtOrBefore(q_tp)].type_index + 1]
                  .utc_offset

\* An instant between two transitions of a table whose first transition's
\* type, second transition's type and default type have three offsets.
C25_Witness ==
  /\ zop = "BreakTime"
  /\ Len(transitions_) = 2
  /\ transitions_[1].unix_time <= q_tp
  /\ q_tp < transitions_[2].unix_time
  /\ bd.offset = 7200
  /\ transition_types_[transitions_[2].type_index + 1].utc_offset = 3600
  /\ transition_types_[default_transition_type_ + 1].utc_offset = 0

\* The table is empty, or the instant is before the first transition, and
\* the default type is not type 0.
C25_WitnessDefault ==
  /\ zop = "BreakTime"
  /\ AtOrBefore(q_tp) = {}
  /\ default_transition_type_ # 0

----------------------------------------------------------------------------
(* BreakTime and MakeTimeInfo on a zone that other threads query too: the   *)
(* two hints are whatever the calls of the other threads stored last.       *)

HintTrans == 4

\* Files with HintTrans transitions two hours apart.
HintFiles ==
  {[types |-> <<[utc_offset |-> 0, is_dst |-> FALSE],
                [utc_offset |-> 3600, is_dst |-> TRUE],
                [utc_offset |-> -3600, is_dst |-> FALSE]>>,
    trans |-> [i \in 1..HintTrans |->
                 [unix_time |-> BaseTime + 7200 * (i - 1),
                  type_index |-> ix[i]]]] :
     ix \in [1..HintTrans -> 0..2]}

HintTimes ==
  {BaseTime + d : d \in {-1, 0, 3600, 7199, 7200, 10000, 14399, 14400, 20000,
                         21599, 21600}}
HintCivils ==
  {Fields(2000, 2, 29, h, mi, 0) : h \in 0..7, mi \in {0, 30}}
  \cup {Fields(2000, 2, 28, 23, 0, 0)}

\* BreakTime(tp) called by another thread, which keeps the Breakdown; the
\* zone is left with the hint stored in line 790
ThreadBreakTime(tp) ==
  /\ zstate = "loaded"
  /\ local_time_hint_' = BreakTimeIndex(tp)[2]
  /\ UNCHANGED <<posix_spec, parsed, posix>>
  /\ UNCHANGED fmtVars
  /\ UNCHANGED <<tzfile, tzhead, extended_, future_, zstate,
                 transition_types_, transitions_, default_transition_type_,
                 time_local_hint_, zop, q_tp, bd, q_civil, ti, nq>>
  /\ UNCHANGED <<regVars, civVars>>

\* MakeTimeInfo(c) called by another thread, which keeps the TimeInfo; the
\* zone is left with the hint stored in line 828
ThreadMakeTimeInfo(c) ==
  /\ zstate = "loaded"
  /\ time_local_hint_' = MakeTimeInfo(c.y, c.m, c.d, c.hh, c.mm, c.ss)[2]
  /\ UNCHANGED <<posix_spec, parsed, posix>>
  /\ UNCHANGED fmtVars
  /\ UNCHANGED <<tzfile, tzhead, extended_, future_, zstate,
                 transition_types_, transitions_, default_transition_type_,
                 local_time_hint_, zop, q_tp, bd, q_civil, ti, nq>>
  /\ UNCHANGED <<regVars, civVars>>

InitHint ==
  /\ RegIdle
  /\ CivilIdle
  /\ PosixIdle
  /\ FmtIdle
  /\ extended_ = FALSE
  /\ future_ = <<>>
  /\ tzhead = Version1Head
  /\ tzfile \in HintFiles
  /\ zstate = "new"
  /\ transition_types_ = <<>>
  /\ transitions_ = <<>>
  /\ default_transition_type_ = 0
  /\ local_time_hint_ = 0
  /\ time_local_hint_ = 0
  /\ zop = "none"
  /\ q_tp = 0
  /\ bd = NoBreakdown
  /\ q_civil = Fields(1970, 1, 1, 0, 0, 0)
  /\ ti = NoTimeInfo
  /\ nq = 0

NextHint ==
  \/ DoLoad
  \/ \E tp \in HintTimes : ThreadBreakTime(tp)
  \/ \E c \in HintCivils : ThreadMakeTimeInfo(c)
  \/ \E tp \in HintTimes : DoBreakTime(tp)
  \/ \E c \in HintCivils : DoMakeTimeInfo(c)

SpecHint == InitHint /\ [][NextHint]_vars

\* BreakTime without lines 776-784: the transition type by the search alone
SearchBreakTimeType(unix_time) ==
  IF Len(transitions_) = 0 \/ unix_time < transitions_[1].unix_time
    THEN default_transition_type_
  ELSE IF unix_time >= transitions_[Len(transitions_)].unix_time
    THEN transitions_[Len(transitions_)].type_index
  ELSE transitions_[UpperBound(transitions_, "ByUnixTime",
                               [unix_time |-> unix_time])].type_index

\* MakeTimeInfo without lines 819-826: the first transition after dt by the
\* search alone
SearchFirstAfter(dt) ==
  IF dt < transitions_[1].date_time THEN 0
  ELSE IF ~(dt < transitions_[Len(transitions_)].date_time)
    THEN Len(transitions_)
  ELSE UpperBound(transitions_, "ByDateTime", [date_time |-> dt])

SearchMakeTimeInfo(c) ==
  LET n == Normalize(c.y, c.m, c.d, c.hh, c.mm, c.ss)
  IN IF Len(transitions_) = 0
       THEN MakeUnique(
              n.offset
                - transition_types_[default_transition_type_ + 1].utc_offset,
              n.normalized)
       ELSE Classify(n.offset, n.normalized, SearchFirstAfter(n.offset))

\* C24: the hints never influence results.  Whatever the two hints were
\* when the call read them, BreakTime and MakeTimeInfo return what the
\* search without a hint returns.
C24_HintsNeverInfluence ==
  /\ zop = "BreakTime" =>
       bd = LocalTime(q_tp, transition_types_[SearchBreakTimeType(q_tp) + 1])
  /\ zop = "MakeTimeInfo" => ti = SearchMakeTimeInfo(q_civil)

\* Other threads left both hints behind; the one BreakTime asked about an
\* instant between the third and the fourth transition, where the hint is
\* 3, in a zone that uses its three types.
C24_Witness ==
  /\ zop = "BreakTime"
  /\ nq = 1
  /\ time_local_hint_ = 2
  /\ local_time_hint_ = 3
  /\ q_tp = BaseTime + 20000
  /\ tzfile.trans[1].type_index = 2
  /\ tzfile.trans[2].type_index = 0
  /\ tzfile.trans[3].type_index = 1
  /\ tzfile.trans[4].type_index = 0
  /\ bd.offset = 3600

----------------------------------------------------------------------------
(* Load on files with good and bad headers and data.                        *)

\* The transition types tried: utc_offset at and next to the limits.
DecodeTypes ==
  {[utc_offset |-> o, is_dst |-> o = SECSPERDAY - 1] :
     o \in {-SECSPERDAY, 1 - SECSPERDAY, 0, SECSPERDAY - 1, SECSPERDAY}}
DecodeFiles ==
  {[types |-> ty, trans |-> tr] :
     ty \in SeqsUpTo(DecodeTypes, 0, 2),
     tr \in SeqsUpTo([unix_time : {BaseTime, BaseTime + 1800},
                      type_index : 0..2], 0, MaxTrans)}

\* An empty future_spec_ between its two newlines.
EmptyTail == [nl |-> TRUE, spec |-> <<>>, closed |-> TRUE]

\* The headers tried.  v is the version byte of the first header, then the
\* magic and the version byte of the second; i is ttisstdcnt and ttisgmtcnt.
DecodeHeads ==
  {[magic |-> m, version |-> v[1], magic8 |-> v[2], version8 |-> v[3],
    leapcnt |-> l, ttisstdcnt |-> i[1], ttisgmtcnt |-> i[2],
    tail |-> IF v[1] = 0 THEN NoTail ELSE EmptyTail] :
     m \in BOOLEAN,
     v \in {<<0, FALSE, 0>>, <<2, TRUE, 2>>, <<2, FALSE, 2>>, <<2, TRUE, 0>>,
            <<3, TRUE, 3>>},
     l \in {0, 1},
     i \in {<<0, 0>>, <<1, 0>>, <<0, 2>>}}

InitDecode ==
  /\ RegIdle
  /\ CivilIdle
  /\ PosixIdle
  /\ FmtIdle
  /\ extended_ = FALSE
  /\ future_ = <<>>
  /\ tzhead \in DecodeHeads
  /\ tzfile \in DecodeFiles
  /\ zstate = "new"
  /\ transition_types_ = <<>>
  /\ transitions_ = <<>>
  /\ default_transition_type_ = 0
  /\ local_time_hint_ = 0
  /\ time_local_hint_ = 0
  /\ zop = "none"
  /\ q_tp = 0
  /\ bd = NoBreakdown
  /\ q_civil = Fields(1970, 1, 1, 0, 0, 0)
  /\ ti = NoTimeInfo
  /\ nq = 0

NextDecode == DoLoad

SpecDecode == InitDecode /\ [][NextDecode]_vars

----------------------------------------------------------------------------
(* Load and BreakTime on files with a POSIX-TZ footer.                      *)

\* Footers that encode a daylight-saving regime.
DstSpecs ==
  {<<"E", "S", "T", "5", "E", "D", "T", ",", "M", "3", ".", "2", ".", "0", ",", "M", "1", "1", ".", "1", ".", "0">>,
   <<"C", "E", "T", "-", "1", "C", "E", "S", "T", ",", "M", "3", ".", "5", ".", "0", ",", "M", "1", "0", ".", "5", ".", "0", "/", "3">>}

\* A footer without daylight-saving time.
StdSpecs == {<<"E", "S", "T", "5">>}

\* Footers that are not POSIX-TZ specifications.
MalformedSpecs ==
  {<<":", "E", "S", "T", "5", "E", "D", "T", ",", "M", "3", ".", "2", ".", "0", ",", "M", "1", "1", ".", "1", ".", "0">>,
   <<"E", "S", "T", "5", "E", "D", "T", ",", "M", "3", ".", "2", ".", "0", ",", "M", "1", "1", ".", "1", ".", "0", "x">>,
   <<"E", "S", "T", "5", "E", "D", "T", ",", "M", "1", "3", ".", "2", ".", "0", ",", "M", "1", "1", ".", "1", ".", "0">>}

\* What follows the data block: a footer between its newlines, one without
\* the first newline, one cut off before the second.
Tails ==
  {[nl |-> TRUE, spec |-> s, closed |-> TRUE] :
     s \in DstSpecs \cup StdSpecs \cup MalformedSpecs \cup {<<>>}}
  \cup {[nl |-> FALSE, spec |-> s, closed |-> TRUE] : s \in DstSpecs}
  \cup {[nl |-> TRUE, spec |-> s, closed |-> FALSE] : s \in MalformedSpecs}

TailHeads ==
  {[magic |-> TRUE, version |-> 2, magic8 |-> TRUE, version8 |-> 2,
    leapcnt |-> 0, ttisstdcnt |-> 0, ttisgmtcnt |-> 0, tail |-> t] :
     t \in Tails}
  \cup {Version1Head}

\* Transitions before 1970 and at BaseTime.
TailTimes == {-2 * SECSPERDAY, -SECSPERDAY, BaseTime}
TailFiles ==
  {[types |-> ty, trans |-> tr] :
     ty \in SeqsUpTo(TypeSet, 2, 2),
     tr \in SeqsUpTo([unix_time : TailTimes, type_index : 0..1], 0, MaxTrans)}

\* The instants asked about: around BaseTime and 500 days later.
TailQueryTimes ==
  {-2 * SECSPERDAY, 0, BaseTime - 1, BaseTime, BaseTime + 7199,
   BaseTime + 7200, BaseTime + 10800, BaseTime + 500 * SECSPERDAY}

InitTail ==
  /\ RegIdle
  /\ CivilIdle
  /\ PosixIdle
  /\ FmtIdle
  /\ extended_ = FALSE
  /\ future_ = <<>>
  /\ tzhead \in TailHeads
  /\ tzfile \in TailFiles
  /\ zstate = "new"
  /\ transition_types_ = <<>>
  /\ transitions_ = <<>>
  /\ default_transition_type_ = 0
  /\ local_time_hint_ = 0
  /\ time_local_hint_ = 0
  /\ zop = "none"
  /\ q_tp = 0
  /\ bd = NoBreakdown
  /\ q_civil = Fields(1970, 1, 1, 0, 0, 0)
  /\ ti = NoTimeInfo
  /\ nq = 0

NextTail ==
  \/ DoLoad
  \/ \E tp \in TailQueryTimes : DoBreakTime(tp)

SpecTail == InitTail /\ [][NextTail]_vars

----------------------------------------------------------------------------
(* Load on files whose footer puts the two rules on one day.                *)

\* Daylight-saving time from 02:00 to 03:30 of the second Sunday of March,
\* and the footer of New York.
OrderSpecs ==
  {<<"G", "M", "T", "0", "B", "S", "T", ",", "M", "3", ".", "2", ".", "0", "/", "2", ",", "M", "3", ".", "2", ".", "0", "/", "3", ":", "3", "0">>,
   <<"E", "S", "T", "5", "E", "D", "T", ",", "M", "3", ".", "2", ".", "0", ",", "M", "1", "1", ".", "1", ".", "0">>}

OrderHeads ==
  {[magic |-> TRUE, version |-> 2, magic8 |-> TRUE, version8 |-> 2,
    leapcnt |-> 0, ttisstdcnt |-> 0, ttisgmtcnt |-> 0,
    tail |-> [nl |-> TRUE, spec |-> s, closed |-> TRUE]] :
     s \in OrderSpecs}

InitOrder ==
  /\ RegIdle
  /\ CivilIdle
  /\ PosixIdle
  /\ FmtIdle
  /\ extended_ = FALSE
  /\ future_ = <<>>
  /\ tzhead \in OrderHeads
  /\ tzfile \in TailFiles
  /\ zstate = "new"
  /\ transition_types_ = <<>>
  /\ transitions_ = <<>>
  /\ default_transition_type_ = 0
  /\ local_time_hint_ = 0
  /\ time_local_hint_ = 0
  /\ zop = "none"
  /\ q_tp = 0
  /\ bd = NoBreakdown
  /\ q_civil = Fields(1970, 1, 1, 0, 0, 0)
  /\ ti = NoTimeInfo
  /\ nq = 0

NextOrder == DoLoad

SpecOrder == InitOrder /\ [][NextOrder]_vars

\* The loaded table, generated transitions included, is strictly increasing
\* by unix_time
IncreasingUnixTime ==
  \A i \in 2..(Len(transitions_) + Len(future_)) :
    WideLess(TransitionAt(i - 1).unix_time, TransitionAt(i).unix_time)

\* and by date_time
IncreasingDateTime ==
  /\ \A i \in 2..Len(transitions_) :
       transitions_[i - 1].date_time < transitions_[i].date_time
  /\ future_ # <<>> =>
       /\ WideLess(Wide(transitions_[Len(transitions_)].date_time),
                   future_[1].date_time)
       /\ \A i \in 2..Len(future_) :
            WideLess(future_[i - 1].date_time, future_[i].date_time)

\* C26: in every successfully loaded zone, extended or not, the transitions
\* are strictly increasing in unix_time and in date_time.
C26_StrictlyIncreasing ==
  zstate = "loaded" => IncreasingUnixTime /\ IncreasingDateTime

\* What Load does see to: the order by date_time of the whole table and the
\* order by unix_time of the transitions read from the file.
C26_OrderChecked ==
  zstate = "loaded" =>
    /\ IncreasingDateTime
    /\ \A i \in 2..Len(transitions_) :
         transitions_[i - 1].unix_time < transitions_[i].unix_time

\* A zone is loaded and extended.
C26_Witness == zstate = "loaded" /\ extended_ /\ Len(future_) = 800

----------------------------------------------------------------------------
(* Load on files with up to DefaultTypes types, daylight or not.            *)

DefaultTypes == 5

\* Standard time at offset 0 and daylight time an hour ahead, in every
\* arrangement; up to MaxTrans transitions two hours apart.
DefaultFiles ==
  {[types |-> [i \in 1..Len(d) |->
                 [utc_offset |-> IF d[i] THEN 3600 ELSE 0, is_dst |-> d[i]]],
    trans |-> [i \in 1..Len(ix) |->
                 [unix_time |-> BaseTime + 7200 * (i - 1),
                  type_index |-> ix[i]]]] :
     d \in SeqsUpTo(BOOLEAN, 1, DefaultTypes),
     ix \in SeqsUpTo(0..(DefaultTypes - 1), 0, MaxTrans)}

InitDefault ==
  /\ RegIdle
  /\ CivilIdle
  /\ PosixIdle
  /\ FmtIdle
  /\ extended_ = FALSE
  /\ future_ = <<>>
  /\ tzhead = Version1Head
  /\ tzfile \in DefaultFiles
  /\ zstate = "new"
  /\ transition_types_ = <<>>
  /\ transitions_ = <<>>
  /\ default_transition_type_ = 0
  /\ local_time_hint_ = 0
  /\ time_local_hint_ = 0
  /\ zop = "none"
  /\ q_tp = 0
  /\ bd = NoBreakdown
  /\ q_civil = Fields(1970, 1, 1, 0, 0, 0)
  /\ ti = NoTimeInfo
  /\ nq = 0

NextDefault == DoLoad

SpecDefault == InitDefault /\ [][NextDefault]_vars

\* The indices (0-based) of the non-DST types of the loaded zone
NonDst == {i \in 0..(Len(transition_types_) - 1) : ~transition_types_[i + 1].is_dst}

\* Some transition of the loaded zone has type 0
Type0Used == \E i \in 1..Len(transitions_) : transitions_[i].type_index = 0

\* The non-DST types at or below the type of the first transition
NonDstBelow == {i \in NonDst : i <= transitions_[1].type_index}

SetMax(S) == CHOOSE x \in S : \A y \in S : y <= x
SetMin(S) == CHOOSE x \in S : \A y \in S : x <= y

\* C27 as stated: the default type is type 0 when type 0 is non-DST,
\* otherwise a non-DST type, and type 0 only if the table has no non-DST
\* type.
C27_DefaultType ==
  zstate = "loaded" =>
    IF 0 \in NonDst THEN default_transition_type_ = 0
    ELSE IF NonDst = {} THEN default_transition_type_ = 0
    ELSE default_transition_type_ \in NonDst

\* C27, amended: type 0 when type 0 is non-DST or no transition uses type
\* 0; otherwise the greatest non-DST type at or below the type of the first
\* transition, or without one the least non-DST type, or without any type 0.
C27_DefaultTypeUsed ==
  zstate = "loaded" =>
    default_transition_type_ =
      IF 0 \in NonDst \/ ~Type0Used THEN 0
      ELSE IF NonDstBelow # {} THEN SetMax(NonDstBelow)
      ELSE IF NonDst # {} THEN SetMin(NonDst)
      ELSE 0

\* Type 0 is daylight time and in use; there are standard types below and
\* above the first transition's type, the one above being nearer, and the
\* one below is the default.
C27_Witness ==
  /\ zstate = "loaded"
  /\ Type0Used
  /\ 0 \notin NonDst
  /\ transitions_[1].type_index = 3
  /\ NonDst = {1, 4}
  /\ default_transition_type_ = 1

\* Type 0 is daylight time and no transition uses it; type 1 is standard
\* time, and type 0 is the default.
C27_WitnessUnused ==
  /\ zstate = "loaded"
  /\ Len(transitions_) > 0
  /\ ~Type0Used
  /\ NonDst = {1}
  /\ default_transition_type_ = 0

----------------------------------------------------------------------------
(* MakeTimeInfo and BreakTime over the whole table of an extended zone and  *)
(* beyond it.  The instants exceed 32 bits and are kept as days and seconds *)
(* throughout; the civil times asked about have all their fields in range,  *)
(* so that DateTime::Normalize leaves them as they are.                     *)

\* u + (a - b)
WidePlusDiff(u, a, b) ==
  <<u[1] + a[1] - b[1] + ((u[2] + a[2] - b[2]) \div SECSPERDAY),
    (u[2] + a[2] - b[2]) % SECSPERDAY>>

\* transitions_[i - 1] of the code, i in 1..timecnt, generated or not
TransitionWide(i) ==
  IF i <= Len(transitions_)
    THEN [unix_time |-> Wide(transitions_[i].unix_time),
          type_index |-> transitions_[i].type_index,
          prev_date_time |-> Wide(transitions_[i].prev_date_time),
          date_time |-> Wide(transitions_[i].date_time)]
    ELSE future_[i - Len(transitions_)]

\* transitions_.size()
TimeCnt == Len(transitions_) + Len(future_)

\* last_year_ after Load, lines 548 and 564
LastYear ==
  LocalTime(transitions_[Len(transitions_)].unix_time,
            transition_types_[
              transitions_[Len(transitions_)].type_index + 1]).year + 400

\* dt.Normalize(year, mon, day, hour, min, sec) for fields in range
DateTimeWide(c) == <<DayOrdinal(c.y, c.m, c.d), c.hh * 3600 + c.mm * 60 + c.ss>>

\* MakeSkipped and MakeRepeated, lines 234-254
MakeSkippedWide(tr, dt) ==
  [kind |-> "SKIPPED",
   pre |-> WidePlus(WidePlusDiff(tr.unix_time, dt, tr.prev_date_time), -1),
   trans |-> tr.unix_time,
   post |-> WidePlusDiff(tr.unix_time, dt, tr.date_time),
   normalized |-> FALSE]
MakeRepeatedWide(tr, dt) ==
  [kind |-> "REPEATED",
   pre |-> WidePlus(WidePlusDiff(tr.unix_time, dt, tr.prev_date_time), -1),
   trans |-> tr.unix_time,
   post |-> WidePlusDiff(tr.unix_time, dt, tr.date_time),
   normalized |-> FALSE]

\* std::upper_bound by date_time over the whole table
UpperBoundDateTime(dt) ==
  IF \E i \in 1..TimeCnt : WideLess(dt, TransitionWide(i).date_time)
    THEN (CHOOSE i \in 1..TimeCnt :
            /\ WideLess(dt, TransitionWide(i).date_time)
            /\ \A j \in 1..(i - 1) :
                 ~WideLess(dt, TransitionWide(j).date_time))
         - 1
    ELSE TimeCnt

\* MakeTimeInfo, lines 809-831: the 0-based index of the first transition
\* after dt and the new time_local_hint_
FirstAfterWide(dt, hint) ==
  IF WideLess(dt, TransitionWide(1).date_time) THEN <<0, hint>>
  ELSE IF ~WideLess(dt, TransitionWide(TimeCnt).date_time)
    THEN <<TimeCnt, hint>>
  ELSE IF /\ 0 < hint /\ hint < TimeCnt
          /\ WideLess(dt, TransitionWide(hint + 1).date_time)
          /\ ~WideLess(dt, TransitionWide(hint).date_time)
    THEN <<hint, hint>>
  ELSE <<UpperBoundDateTime(dt), UpperBoundDateTime(dt)>>

\* MakeTimeInfo, lines 833-872, given the index tr of the first transition
\* after dt; kind SHIFT stands for the call of TimeLocal in line 850
ClassifyWide(dt, year, tr) ==
  IF tr = 0
    THEN IF ~WideLess(TransitionWide(1).prev_date_time, dt)
           THEN MakeUnique(
                  WidePlus(dt, -transition_types_[default_transition_type_ + 1]
                                  .utc_offset),
                  FALSE)
           ELSE MakeSkippedWide(TransitionWide(1), dt)
  ELSE IF tr = TimeCnt
    THEN IF WideLess(TransitionWide(tr).prev_date_time, dt)
           THEN IF extended_ /\ year > LastYear
                  THEN [kind |-> "SHIFT"]
                  ELSE MakeUnique(
                         WidePlusDiff(TransitionWide(tr).unix_time, dt,
                                      TransitionWide(tr).date_time),
                         FALSE)
           ELSE MakeRepeatedWide(TransitionWide(tr), dt)
  ELSE IF WideLess(TransitionWide(tr + 1).prev_date_time, dt)
    THEN MakeSkippedWide(TransitionWide(tr + 1), dt)
  ELSE IF ~WideLess(TransitionWide(tr).prev_date_time, dt)
    THEN MakeRepeatedWide(TransitionWide(tr), dt)
  ELSE MakeUnique(WidePlusDiff(TransitionWide(tr).unix_time, dt,
                               TransitionWide(tr).date_time),
                  FALSE)

\* MakeTimeInfo without the call of TimeLocal: the TimeInfo and the hint
MakeTimeInfoTable(c, hint) ==
  IF TimeCnt = 0
    THEN <<MakeUnique(
             WidePlus(DateTimeWide(c),
                      -transition_types_[default_transition_type_ + 1]
                         .utc_offset),
             FALSE),
           hint>>
    ELSE <<ClassifyWide(DateTimeWide(c), c.y,
                        FirstAfterWide(DateTimeWide(c), hint)[1]),
           FirstAfterWide(DateTimeWide(c), hint)[2]>>

\* TimeLocal, lines 744-751: MakeTimeInfo of the year shift * 400 years
\* back, moved forward by shift * kSecPer400Years
TimeLocal(c, shift, hint) ==
  LET r == MakeTimeInfoTable([c EXCEPT !.y = c.y - shift * 400], hint)
  IN <<[kind |-> r[1].kind,
        pre |-> <<r[1].pre[1] + shift * 146097, r[1].pre[2]>>,
        trans |-> <<r[1].trans[1] + shift * 146097, r[1].trans[2]>>,
        post |-> <<r[1].post[1] + shift * 146097, r[1].post[2]>>,
        normalized |-> r[1].normalized],
       r[2]>>

\* TimeZoneInfo::MakeTimeInfo(year, mon, day, hour, min, sec) for fields in
\* range: the TimeInfo and the new time_local_hint_
MakeTimeInfoWide(c, hint) ==
  LET r == MakeTimeInfoTable(c, hint)
  IN IF r[1].kind = "SHIFT"
       THEN TimeLocal(c, (c.y - LastYear) \div 400 + 1, r[2])
       ELSE r

\* std::upper_bound by unix_time over the whole table
UpperBoundUnixTime(w) ==
  IF \E i \in 1..TimeCnt : WideLess(w, TransitionWide(i).unix_time)
    THEN (CHOOSE i \in 1..TimeCnt :
            /\ WideLess(w, TransitionWide(i).unix_time)
            /\ \A j \in 1..(i - 1) :
                 ~WideLess(w, TransitionWide(j).unix_time))
         - 1
    ELSE TimeCnt

\* BreakTime, lines 753-792, without the branch of lines 764-771: the
\* 0-based type index and the new local_time_hint_
BreakTimeTypeWide(w, hint) ==
  IF TimeCnt = 0 \/ WideLess(w, TransitionWide(1).unix_time)
    THEN <<default_transition_type_, hint>>
  ELSE IF ~WideLess(w, TransitionWide(TimeCnt).unix_time)
    THEN <<TransitionWide(TimeCnt).type_index, hint>>
  ELSE IF /\ 0 < hint /\ hint < TimeCnt
          /\ WideLess(w, TransitionWide(hint + 1).unix_time)
          /\ ~WideLess(w, TransitionWide(hint).unix_time)
    THEN <<TransitionWide(hint).type_index, hint>>
  ELSE <<TransitionWide(UpperBoundUnixTime(w)).type_index,
         UpperBoundUnixTime(w)>>

\* lines 765-766: shift = diff / kSecPer400Years + 1 for the instant w at
\* or after the last transition
BreakTimeShift(w) ==
  (((w[1] - TransitionWide(TimeCnt).unix_time[1])
      + ((w[2] - TransitionWide(TimeCnt).unix_time[2]) \div SECSPERDAY))
     \div 146097) + 1

\* TimeZoneInfo::BreakTime(tp): the Breakdown and the new local_time_hint_
BreakTimeWide(w, hint) ==
  IF /\ extended_
     /\ ~WideLess(w, Wide(transitions_[1].unix_time))
     /\ ~WideLess(w, TransitionWide(TimeCnt).unix_time)
    THEN LET back == <<w[1] - BreakTimeShift(w) * 146097, w[2]>>
             r == BreakTimeTypeWide(back, hint)
             b == LocalTimeWide(back, transition_types_[r[1] + 1])
         IN <<[b EXCEPT !.year = b.year + BreakTimeShift(w) * 400], r[2]>>
    ELSE <<LocalTimeWide(w, transition_types_[BreakTimeTypeWide(w, hint)[1] + 1]),
           BreakTimeTypeWide(w, hint)[2]>>

\* MakeTimeInfo(c) on the loaded zone
DoMakeTimeInfoWide(c) ==
  /\ zstate = "loaded"
  /\ nq < MaxQueries
  /\ nq' = nq + 1
  /\ q_civil' = c
  /\ \E r \in {MakeTimeInfoWide(c, time_local_hint_)} :
       /\ ti' = r[1]
       /\ time_local_hint_' = r[2]
  /\ zop' = "MakeTimeInfoWide"
  /\ UNCHANGED <<posix_spec, parsed, posix>>
  /\ UNCHANGED fmtVars
  /\ UNCHANGED <<tzfile, tzhead, extended_, future_, zstate,
                 transition_types_, transitions_, default_transition_type_,
                 local_time_hint_, q_tp, bd>>
  /\ UNCHANGED <<regVars, civVars>>

\* BreakTime of the instant MakeTimeInfo just returned as pre
DoBreakTimeWide ==
  /\ zstate = "loaded"
  /\ zop = "MakeTimeInfoWide"
  /\ q_tp' = ti.pre
  /\ \E r \in {BreakTimeWide(ti.pre, local_time_hint_)} :
       /\ bd' = r[1]
       /\ local_time_hint_' = r[2]
  /\ zop' = "BreakTimeWide"
  /\ UNCHANGED <<posix_spec, parsed, posix>>
  /\ UNCHANGED fmtVars
  /\ UNCHANGED <<tzfile, tzhead, extended_, future_, zstate,
                 transition_types_, transitions_, default_transition_type_,
                 time_local_hint_, q_civil, ti, nq>>
  /\ UNCHANGED <<regVars, civVars>>

\* Summer time of the United Kingdom.
WideSpecs ==
  {<<"G", "M", "T", "0", "B", "S", "T", ",", "M", "3", ".", "5", ".", "0", "/", "1", ",", "M", "1", "0", ".", "5", ".", "0">>}

WideHeads ==
  {[magic |-> TRUE, version |-> 2, magic8 |-> TRUE, version8 |-> 2,
    leapcnt |-> 0, ttisstdcnt |-> 0, ttisgmtcnt |-> 0,
    tail |-> [nl |-> TRUE, spec |-> s, closed |-> TRUE]] :
     s \in WideSpecs}
  \cup {Version1Head}

\* 2000-03-26, 2000-10-29 and 2000-12-15 at 01:00:00 UTC
Mar26 == 11042 * SECSPERDAY + 3600
Oct29 == 11259 * SECSPERDAY + 3600
Dec15 == 11306 * SECSPERDAY + 3600

\* Greenwich time and summer time with the transitions of 2000, the same
\* with the return to Greenwich time on 15 December, and a zone that goes
\* from +01:00 to Greenwich time twice within half an hour.
WideFiles ==
  {[types |-> <<[utc_offset |-> 0, is_dst |-> FALSE],
                [utc_offset |-> 3600, is_dst |-> TRUE]>>,
    trans |-> <<[unix_time |-> Mar26, type_index |-> 1],
                [unix_time |-> last, type_index |-> 0]>>] :
     last \in {Oct29, Dec15}}
  \cup
  {[types |-> <<[utc_offset |-> 3600, is_dst |-> FALSE],
                [utc_offset |-> 0, is_dst |-> FALSE]>>,
    trans |-> <<[unix_time |-> Mar26, type_index |-> 1],
                [unix_time |-> Mar26 + 1800, type_index |-> 1]>>]}

\* Civil times around the transitions and between them, in the years of
\* the file, of the generated transitions and beyond.
WideYears == {2000, 2001, 2399, 2400, 2401, 2801}
WideCivils ==
  {Fields(y, md[1], md[2], hms[1], hms[2], hms[3]) :
     y \in WideYears,
     md \in {<<3, 25>>, <<3, 26>>, <<10, 28>>, <<10, 29>>},
     hms \in {<<0, 59, 59>>, <<1, 0, 0>>, <<1, 30, 0>>, <<2, 0, 0>>}}
  \cup
  {Fields(y, md[1], md[2], 12, 0, 0) :
     y \in WideYears,
     md \in {<<1, 1>>, <<7, 1>>, <<11, 20>>, <<12, 15>>, <<12, 31>>}}

InitWide ==
  /\ RegIdle
  /\ CivilIdle
  /\ PosixIdle
  /\ FmtIdle
  /\ extended_ = FALSE
  /\ future_ = <<>>
  /\ tzhead \in WideHeads
  /\ tzfile \in WideFiles
  /\ zstate = "new"
  /\ transition_types_ = <<>>
  /\ transitions_ = <<>>
  /\ default_transition_type_ = 0
  /\ local_time_hint_ = 0
  /\ time_local_hint_ = 0
  /\ zop = "none"
  /\ q_tp = 0
  /\ bd = NoBreakdown
  /\ q_civil = Fields(1970, 1, 1, 0, 0, 0)
  /\ ti = NoTimeInfo
  /\ nq = 0

NextWide ==
  \/ DoLoad
  \/ \E c \in WideCivils : DoMakeTimeInfoWide(c)
  \/ DoBreakTimeWide

SpecWide == InitWide /\ [][NextWide]_vars

\* C29: for every civil second c with its fields in range that MakeTimeInfo
\* classifies as UNIQUE, also one later than the last transition of an
\* extended table, BreakTime of the instant returned gives back exactly c.
C29_UniqueBreaksBack ==
  (zop = "BreakTimeWide" /\ ti.kind = "UNIQUE") =>
    Fields(bd.year, bd.month, bd.day, bd.hour, bd.minute, bd.second) = q_civil

----------------------------------------------------------------------------
(* The POSIX-TZ parser as a step.                                           *)

\* the standard abbreviations tried
StdAbbrs ==
  {<<"E", "S", "T">>,
   <<":", "E", "S", "T">>,
   <<"<", "+", "0", "3", ">">>,
   <<"E", "S">>,
   <<"<", "9", "9", "9", "9", "9", "9", "9", "9", "9", "9", "9", ">">>,
   <<"<", "a", "b">>}

\* the standard offsets tried
StdOffsets ==
  {<<"5">>,
   <<"-", "3">>,
   <<"+", "5", ":", "3", "0">>,
   <<"2", "5">>,
   <<"5", ":", "3", "0", ":", "1", "5">>,
   <<"2", "1", "4", "7", "4", "8", "3", "6", "4", "8">>,
   <<"9", "9", "9", "9", "9", "9", "9", "9", "9", "9", "9">>,
   <<>>,
   <<"5", ":", "6", "0">>}

\* the daylight abbreviations and offsets tried
DstParts ==
  {<<>>,
   <<"E", "D", "T">>,
   <<"E", "D", "T", "4">>}

\* the rules tried
RuleParts ==
  {<<>>,
   <<",", "M", "3", ".", "2", ".", "0", ",", "M", "1", "1", ".", "1", ".", "0">>,
   <<",", "M", "3", ".", "2", ".", "0", "/", "2", ",", "M", "1", "1", ".", "1", ".", "0", "/", "1", ":", "3", "0">>,
   <<",", "J", "6", "0", ",", "J", "3", "0", "0">>,
   <<",", "6", "0", ",", "3", "0", "0", "/", "9", "9", "9", "9", "9", "9", "9", "9", "9", "9", "9">>,
   <<",", "M", "3", ".", "2", ".", "0", ",", "M", "1", "1", ".", "1", ".", "0", "x">>,
   <<",", "M", "3", ".", "2", ".", "0", ",", "M", "1", "1", ".", "1", ".", "0", ",">>,
   <<",", "M", "1", "3", ".", "1", ".", "0", ",", "M", "1", "1", ".", "1", ".", "0">>,
   <<",", "M", "3", ".", "2", ".", "0">>,
   <<",", "M", "3", ",", "M", "1", "1">>,
   <<",", "M", "3", ".", "2", ",", "M", "1", "1", ".", "1", ".", "0">>,
   <<",", "M", "3", ".", "5", ".", "0", ",", "M", "1", "0", ".", "5", ".", "0", "/", "3">>}

PosixSpecs ==
  {a \o b \o c \o d :
     a \in StdAbbrs, b \in StdOffsets, c \in DstParts, d \in RuleParts}

\* ParsePosixSpec(posix_spec, &res) on a fresh res
DoParsePosixSpec ==
  /\ ~parsed
  /\ parsed' = TRUE
  /\ posix' = ParsePosixSpec(posix_spec)
  /\ UNCHANGED posix_spec
  /\ UNCHANGED fmtVars
  /\ UNCHANGED <<tzfile, tzhead, extended_, future_, zstate,
                 transition_types_, transitions_, default_transition_type_,
                 local_time_hint_, time_local_hint_, zop, q_tp, bd, q_civil,
                 ti, nq>>
  /\ UNCHANGED <<regVars, civVars>>

InitPosix ==
  /\ RegIdle
  /\ CivilIdle
  /\ FmtIdle
  /\ posix_spec \in PosixSpecs
  /\ parsed = FALSE
  /\ posix = [ok |-> FALSE, res |-> NoPosixTimeZone]
  /\ extended_ = FALSE
  /\ future_ = <<>>
  /\ tzhead = Version1Head
  /\ tzfile = [types |-> <<>>, trans |-> <<>>]
  /\ zstate = "new"
  /\ transition_types_ = <<>>
  /\ transitions_ = <<>>
  /\ default_transition_type_ = 0
  /\ local_time_hint_ = 0
  /\ time_local_hint_ = 0
  /\ zop = "none"
  /\ q_tp = 0
  /\ bd = NoBreakdown
  /\ q_civil = Fields(1970, 1, 1, 0, 0, 0)
  /\ ti = NoTimeInfo
  /\ nq = 0

NextPosix == DoParsePosixSpec

SpecPosix == InitPosix /\ [][NextPosix]_vars

----------------------------------------------------------------------------
(* Format and Parse in zones with whole-minute and other offsets.           *)

\* Africa/Monrovia around 1972-01-07, when it went from -0:44:30 to GMT;
\* America/Los_Angeles in 1977; Asia/Kolkata; a zone at offset 0.
FormatFiles ==
  {[types |-> <<[utc_offset |-> -2670, is_dst |-> FALSE],
                [utc_offset |-> 0, is_dst |-> FALSE]>>,
    trans |-> <<[unix_time |-> 63593070, type_index |-> 1]>>],
   [types |-> <<[utc_offset |-> -28800, is_dst |-> FALSE],
                [utc_offset |-> -25200, is_dst |-> TRUE]>>,
    trans |-> <<[unix_time |-> 230724000, type_index |-> 1],
                [unix_time |-> 247050000, type_index |-> 0]>>],
   [types |-> <<[utc_offset |-> 19800, is_dst |-> FALSE]>>, trans |-> <<>>],
   [types |-> <<[utc_offset |-> 0, is_dst |-> FALSE]>>, trans |-> <<>>]}

\* The instants formatted: whole seconds around the epoch, the transitions
\* and two leap days, each with and without a fraction of a second.
FormatSeconds ==
  {-57974401, -1, 0, 1, 63593069, 63593070, 230723999, 230724000, 236362087,
   247049999, 247050000, 247053599, 951782400}
FormatSubs == {0, 1, 654321, 120000000, 999999999}
FormatTimes ==
  {<<q, r>> : q \in {x \in FormatSeconds : x >= 0}, r \in FormatSubs}
  \cup {<<q, -r>> : q \in {x \in FormatSeconds : x <= 0},
                    r \in FormatSubs}

\* The formats parsed against.
ParseFormats == {RFC3339_full, RFC3339_sec, CivilFormat}

\* The inputs parsed: the text Format returned, that text with a character
\* more, less or changed, and texts with a leap second, a second 61, days
\* and months there are not, a skipped and a repeated civil time.
ParseTexts ==
  {<<"2", "0", "1", "3", "-", "0", "6", "-", "2", "8", "T", "0", "7", ":", "0", "8", ":", "6", "1", "-", "0", "8", ":", "0", "0">>,
   <<"2", "0", "1", "3", "-", "0", "6", "-", "2", "8", "T", "0", "7", ":", "0", "8", ":", "6", "0", ".", "5", "-", "0", "8", ":", "0", "0">>,
   <<"2", "0", "1", "3", "-", "0", "6", "-", "2", "8", "T", "0", "7", ":", "0", "8", ":", "5", "9", ".", "5", "Z">>,
   <<"2", "0", "1", "3", "-", "0", "2", "-", "3", "1", "T", "0", "0", ":", "0", "0", ":", "0", "0", "Z">>,
   <<"2", "0", "1", "3", "-", "1", "3", "-", "0", "1", "T", "0", "0", ":", "0", "0", ":", "0", "0", "Z">>,
   <<"1", "9", "7", "7", "-", "0", "6", "-", "2", "8", "T", "0", "9", ":", "0", "8", ":", "0", "7", "-", "0", "7", ":", "0">>,
   <<"1", "9", "7", "7", "-", "0", "4", "-", "2", "4", " ", "0", "2", ":", "1", "5", ":", "0", "0">>,
   <<"1", "9", "7", "7", "-", "1", "0", "-", "3", "0", " ", "0", "1", ":", "3", "0", ":", "0", "0">>,
   <<"1", "9", "7", "7", "-", "0", "6", "-", "2", "8", " ", "0", "9", ":", "0", "8", ":", "0", "7", " ", " ">>}
ParseInputs(text) ==
  {text, text \o <<"x">>, text \o <<" ">>,
   SubSeq(text, 1, Len(text) - 1), <<"+">> \o text}
  \cup ParseTexts

\* What the caller's time_point holds before Parse.
OldTimes == {<<0, 0>>, <<236362087, 654321>>}

InitFormat ==
  /\ RegIdle
  /\ CivilIdle
  /\ PosixIdle
  /\ FmtIdle
  /\ extended_ = FALSE
  /\ future_ = <<>>
  /\ tzhead = Version1Head
  /\ tzfile \in FormatFiles
  /\ zstate = "new"
  /\ transition_types_ = <<>>
  /\ transitions_ = <<>>
  /\ default_transition_type_ = 0
  /\ local_time_hint_ = 0
  /\ time_local_hint_ = 0
  /\ zop = "none"
  /\ q_tp = 0
  /\ bd = NoBreakdown
  /\ q_civil = Fields(1970, 1, 1, 0, 0, 0)
  /\ ti = NoTimeInfo
  /\ nq = 0

NextFormat ==
  \/ DoLoad
  \/ \E tp \in FormatTimes : DoFormat(tp)
  \/ \E format \in ParseFormats, input \in ParseInputs(fmt_text),
        old \in OldTimes : DoParse(format, input, old)

SpecFormat == InitFormat /\ [][NextFormat]_vars

----------------------------------------------------------------------------
(* Claims about the registry, checked under SpecLoad.                      *)

\* C1: whenever resolution of a requested name fails, load returns
\* ok = false and the UTC zone, for every caller, including one that
\* races with another thread loading the same failing name.
C1_FailedLoadReturnsUtcFalse ==
  \A r \in results : r.name \in failed => (~r.ok /\ r.tz = utc_zone)

\* C2: any two load calls for the same name, sequential or concurrent,
\* return the same zone handle.
C2_SameHandle ==
  \A r1, r2 \in results : r1.name = r2.name => r1.tz = r2.tz

\* Two calls of one non-UTC name raced: one loaded it, the other missed
\* the first check and found it installed under the exclusive lock.
C2_Witness ==
  \E r1, r2 \in results :
    /\ r1.name = r2.name
    /\ r1.name # "UTC"
    /\ r1.path = "loaded"
    /\ r2.path = "raced"
    /\ r1.tz # utc_zone

\* C18: every call of load("UTC") returns ok = true: the call that loads
\* UTC, a call that finds it in the map, and a call made after UTC was
\* loaded on behalf of another name or handed out as a fallback.
C18_UtcAlwaysOk ==
  \A r \in results : r.name = "UTC" => r.ok

\* load("UTC") found UTC in the map although no call asked for it before:
\* the load of another name brought it in, and that name then failed and
\* got the UTC zone as its fallback.
C18_Witness ==
  \E r, q \in results :
    /\ r.name = "UTC"
    /\ r.path = "cached"
    /\ r.tz = utc_zone
    /\ loads["UTC"] = 1
    /\ \A u \in results : u.name = "UTC" => u.path = "cached"
    /\ q.name \in failed
    /\ q.tz = r.tz

\* C21 (as stated): the registry lock is never held while a zone is read
\* and decoded: whenever the zone loader runs, the mutex is free.
C21_LoadOutsideLock ==
  [][(loads' # loads \/ fopens' # fopens) => time_zone_mutex = 0]_vars

\* C21 (amended): the zone loader runs only inside the critical section of
\* the second check: the thread that runs it holds the registry mutex
\* before and after, and releases it only when it returns from the call.
C21_LoadUnderLock ==
  [][(loads' # loads \/ fopens' # fopens) =>
       \E t \in Threads :
         /\ InFrame(t, "LoadTimeZone", "load")
         /\ time_zone_mutex = t
         /\ time_zone_mutex' = t
         /\ stack'[t][Len(stack'[t])].pc = "unlock"]_vars

\* A thread has read the file of a name other than UTC and still holds the
\* mutex, while another thread waits at the first check.
C21_Witness ==
  \E t, u \in Threads :
    /\ InFrame(t, "LoadTimeZone", "unlock")
    /\ Top(t).name # "UTC"
    /\ Top(t).path = "loaded"
    /\ ZonePath(Top(t).name) \in fopens
    /\ time_zone_mutex = t
    /\ u # t
    /\ InFrame(u, "LoadTimeZone", "check1")

\* C22: when several threads load the same uncached name concurrently,
\* exactly one of them runs the zone loader for it: no name is ever loaded
\* twice, and a name some call has returned for was loaded once.
C22_OneDecode ==
  /\ \A n \in DOMAIN loads : loads[n] <= 1
  /\ \A r \in results : loads[r.name] = 1

\* Two calls for one loadable name other than UTC both missed the first
\* check; one ran the loader, the other found the entry in the second
\* check, and the loader ran once.
C22_Witness ==
  \E r1, r2 \in results :
    /\ r1.name = r2.name
    /\ r1.name \in fs
    /\ r1.path = "loaded"
    /\ r2.path = "raced"
    /\ r1.ok /\ r2.ok
    /\ loads[r1.name] = 1

\* C23: whatever name is loaded first, UTC is created and installed in the
\* registry before any other name gets an entry, so a load that fails has a
\* non-null UTC zone to fall back to.
C23_UtcInstalledFirst ==
  /\ \A n \in DOMAIN time_zone_map :
       n # "UTC" =>
         /\ "UTC" \in DOMAIN time_zone_map
         /\ utc_zone # 0
         /\ time_zone_map["UTC"] = utc_zone
         /\ impl_name[utc_zone] = "UTC"
  /\ \A r \in results : r.name \in failed => r.tz # 0

\* The first and only call asked for a name that does not load; no call
\* asked for UTC, yet the call got the UTC zone, which is in the registry.
C23_Witness ==
  /\ calls = 1
  /\ \E r \in results :
       /\ r.name \in failed
       /\ r.path = "loaded"
       /\ r.tz = utc_zone
       /\ r.tz # 0
       /\ time_zone_map["UTC"] = r.tz
       /\ loads["UTC"] = 1

\* C28: no interleaving of loads (of UTC or any other name) and of
\* dereferences of default-constructed zones deadlocks between the registry
\* mutex and the one-shot UTC guard: every call returns in the end.
C28_EveryCallReturns ==
  \A t \in Threads : (stack[t] # <<>>) ~> (stack[t] = <<>>)

\* The same seen from a state: while a call is under way some thread can
\* take a step.
C28_NoDeadlock ==
  (\E t \in Threads : stack[t] # <<>>) => \E t \in Threads : ENABLED ThreadStep(t)

\* One thread waits at the one-shot guard, having asked for a default
\* zone's UTC, while the other runs the guard's load of UTC for a named
\* zone and holds the mutex.
C28_Witness ==
  \E t, u \in Threads :
    /\ InFrame(t, "get", "once")
    /\ load_utc_once = "running"
    /\ Len(stack[u]) = 2
    /\ stack[u][1].name # "UTC"
    /\ InFrame(u, "LoadTimeZone", "unlock")
    /\ time_zone_mutex = u

\* Every call made has returned: a load that failed, a load of UTC and a
\* dereference.
C28_WitnessReturned ==
  /\ calls = MaxCalls
  /\ \A t \in Threads : stack[t] = <<>>
  /\ derefs # {}
  /\ \E r \in results : r.name = "UTC"
  /\ \E r \in results : ~r.ok

\* C3: negative caching is permanent: a load of a name that starts after a
\* load of that name has failed returns ok = false with the UTC zone and
\* does not invoke the zone loader; the loader ran once for that name.
C3_NegativeCachingPermanent ==
  /\ \A r \in results :
       r.after_fail => (~r.ok /\ r.tz = utc_zone /\ r.path = "cached")
  /\ \A n \in failed : loads[n] = 1

\* A load that started after the failure has returned, and the name's file
\* has meanwhile become loadable.
C3_Witness ==
  \E r \in results : r.after_fail /\ r.name \in fs /\ r.tz = utc_zone

\* C12 as stated: a load of an empty name, or of a name containing ':',
\* fails before any file is opened and returns (UTC, false).
HasColon(name) == \E i \in 1..Len(Chars(name)) : Chars(name)[i] = ":"
----------------------------------------------------------------------------
(* Claims about civil-time normalization, checked under SpecNorm.           *)

\* The proleptic Gregorian calendar, independently of the code: the
\* position of six un-normalized fields on the time line, as the 400-year
\* era, the day within the era and the second within the day.
RefLeap(y) == (y % 4 = 0 /\ y % 100 # 0) \/ y % 400 = 0
RefDaysInMonth(y, m) ==
  IF m = 2 THEN (IF RefLeap(y) THEN 29 ELSE 28)
  ELSE IF m \in {4, 6, 9, 11} THEN 30 ELSE 31
RECURSIVE RefDaysBeforeMonth(_, _)
RefDaysBeforeMonth(y, m) ==
  IF m = 1 THEN 0
  ELSE RefDaysBeforeMonth(y, m - 1) + RefDaysInMonth(y, m - 1)
RefDaysBeforeYear(yy) ==
  365 * yy + (yy + 3) \div 4 - (yy + 99) \div 100 + (yy + 399) \div 400
RefPoint(f) ==
  LET Y == f.y + (f.m - 1) \div 12
      M == ((f.m - 1) % 12) + 1
      MM == f.mm + f.ss \div 60
      HH == f.hh + MM \div 60
      dn == RefDaysBeforeYear(Y % 400) + RefDaysBeforeMonth(Y, M)
            + (f.d - 1) + HH \div 24
  IN <<Y \div 400 + dn \div 146097, dn % 146097,
       (HH % 24) * 3600 + (MM % 60) * 60 + (f.ss % 60)>>
RefLessEq(p, q) ==
  \/ p[1] < q[1]
  \/ p[1] = q[1] /\ p[2] < q[2]
  \/ p[1] = q[1] /\ p[2] = q[2] /\ p[3] <= q[3]
RefCanonical(f) ==
  /\ f.y \in IntMin..IntMax
  /\ f.m \in 1..12
  /\ f.d \in 1..RefDaysInMonth(f.y, f.m)
  /\ f.hh \in 0..23
  /\ f.mm \in 0..59
  /\ f.ss \in 0..59
\* Some canonical tuple with an int year denotes the same point as f.
RefRepresentable(f) ==
  /\ RefLessEq(RefPoint(Fields(IntMin, 1, 1, 0, 0, 0)), RefPoint(f))
  /\ RefLessEq(RefPoint(f), RefPoint(Fields(IntMax, 12, 31, 23, 59, 59)))

\* The constructor yielded the canonical tuple that denotes the same number
\* of seconds from the civil origin as its six arguments.
NormalizedExactly ==
  /\ ~ub
  /\ RefCanonical(cv)
  /\ RefPoint(cv) = RefPoint(in6)

----------------------------------------------------------------------------
(* Claims about the zoneinfo lookups, checked under SpecZone.               *)

Resolved == zop \in {"MakeTimeInfo", "RoundTrip"}
BdFields(b) == Fields(b.year, b.month, b.day, b.hour, b.minute, b.second)
\* The civil second asked about, as a DateTime.
QueryDateTime ==
  Normalize(q_civil.y, q_civil.m, q_civil.d, q_civil.hh, q_civil.mm,
            q_civil.ss).offset
\* The transition type in force before transition k.
TypeBefore(k) ==
  IF k = 1 THEN transition_types_[default_transition_type_ + 1]
  ELSE transition_types_[transitions_[k - 1].type_index + 1]
TypeAfter(k) == transition_types_[transitions_[k].type_index + 1]
SkippedBy(k) ==
  /\ transitions_[k].prev_date_time < QueryDateTime
  /\ QueryDateTime < transitions_[k].date_time
RepeatedBy(k) ==
  /\ transitions_[k].date_time <= QueryDateTime
  /\ QueryDateTime <= transitions_[k].prev_date_time

\* C4: round trip on unique times: if resolving the civil second that
\* breakdown(Z, t) produced is classified Unique, the resolved pre is t.
C4_RoundTripUnique ==
  (zop = "RoundTrip" /\ ti.kind = "UNIQUE") => ti.pre = q_tp

\* C5: a civil second c is classified Skipped exactly when
\* prev_date_time < c < date_time for some transition, Repeated exactly when
\* date_time <= c <= prev_date_time for some transition, and Unique in
\* every other case.
C5_Classification ==
  Resolved =>
    /\ ti.kind = "SKIPPED" <=> \E k \in 1..Len(transitions_) : SkippedBy(k)
    /\ ti.kind = "REPEATED" <=> \E k \in 1..Len(transitions_) : RepeatedBy(k)
    /\ ti.kind = "UNIQUE" <=>
         ~\E k \in 1..Len(transitions_) : SkippedBy(k) \/ RepeatedBy(k)

\* C6: for a skipped or repeated civil second c there is a transition such
\* that trans is its instant, pre read under the offset in force before it
\* is c, and post read under the offset in force after it is c.
C6_PrePostTrans ==
  (Resolved /\ ti.kind # "UNIQUE") =>
    \E k \in 1..Len(transitions_) :
      /\ ti.trans = transitions_[k].unix_time
      /\ RefPoint(BdFields(LocalTime(ti.pre, TypeBefore(k))))
           = RefPoint(q_civil)
      /\ RefPoint(BdFields(LocalTime(ti.post, TypeAfter(k))))
           = RefPoint(q_civil)

\* In a zone with two transitions, a civil second skipped by the first or
\* one repeated by the second has been resolved.
C6_Witness ==
  /\ Resolved /\ Len(transitions_) = 2
  /\ \/ ti.kind = "SKIPPED" /\ SkippedBy(1) /\ ti.pre # ti.post
     \/ ti.kind = "REPEATED" /\ RepeatedBy(2) /\ ti.pre # ti.post

\* C7 as stated: for every skipped or repeated civil second,
\* pre <= trans <= post.
C7_PreTransPost ==
  (Resolved /\ ti.kind # "UNIQUE") =>
    (ti.pre <= ti.trans /\ ti.trans <= ti.post)

\* C7, amended: pre < trans <= post for a repeated civil second, and
\* post < trans <= pre for a skipped one.
C7_Ordering ==
  Resolved =>
    /\ ti.kind = "REPEATED" => (ti.pre < ti.trans /\ ti.trans <= ti.post)
    /\ ti.kind = "SKIPPED" => (ti.post < ti.trans /\ ti.trans <= ti.pre)

\* A repeated civil second resolved in a zone that also skips an hour.
C7_Witness ==
  /\ Resolved /\ ti.kind = "REPEATED"
  /\ ti.post - ti.pre = 3600
  /\ \E k \in 1..Len(transitions_) :
       transitions_[k].prev_date_time < transitions_[k].date_time - 1

----------------------------------------------------------------------------
(* Claims about civil-time arithmetic, checked under SpecArith.             *)

\* f with its field of alignment T increased by n, left un-normalized and
\* computed without int limits.
StepExact(T, f, n) ==
  CASE T = "second" -> [f EXCEPT !.ss = @ + n]
    [] T = "minute" -> [f EXCEPT !.mm = @ + n]
    [] T = "hour" -> [f EXCEPT !.hh = @ + n]
    [] T = "day" -> [f EXCEPT !.d = @ + n]
    [] T = "month" -> [f EXCEPT !.m = @ + n]
    [] T = "year" -> [f EXCEPT !.y = @ + n]

\* C9: subtracting a step equal to INT_MIN does not overflow, at every
\* alignment, in the compound form (x -= n) and in the binary form (x - n),
\* whenever the civil value x - n itself has an int year.
C9_IntMinStepNoOverflow ==
  (op \in {"minus_assign", "minus"} /\ arg = IntMin /\ diff = <<>>
     /\ RefRepresentable(StepExact(tag, prev, -arg)))
    => (~ub /\ RefPoint(cv) = RefPoint(StepExact(tag, prev, -arg)))

\* C10: at every alignment (x + n) - x = n, for every x and n for which
\* x + n was computed, i.e. stays in the representable range.
C10_DifferenceInvertsAddition ==
  (op = "plus" /\ diff # <<>>) => (~ub /\ diff[1] = arg)

----------------------------------------------------------------------------
(* Claims about the weekday functions, checked under SpecWeekday.           *)

\* Whole days from g to f and the weekday of f (monday = 0) in the
\* proleptic Gregorian calendar, independently of the code: 1970-01-01 was
\* a Thursday.
RefDayDiff(f, g) ==
  (RefPoint(f)[1] - RefPoint(g)[1]) * 146097 + RefPoint(f)[2] - RefPoint(g)[2]
RefWeekday(f) == (RefDayDiff(f, Fields(1970, 1, 1, 0, 0, 0)) + 3) % 7

\* C11: next_weekday(d, wd) returns the first day strictly after d whose
\* weekday is wd, 1 to 7 days after d (7 when d falls on wd, never 0), and
\* prev_weekday is the mirror image for the days strictly before d.
C11_NextPrevWeekday ==
  /\ op = "next_weekday" =>
       /\ ~ub
       /\ RefWeekday(cv) = arg
       /\ RefDayDiff(cv, prev) \in 1..7
       /\ RefWeekday(prev) = arg => RefDayDiff(cv, prev) = 7
  /\ op = "prev_weekday" =>
       /\ ~ub
       /\ RefWeekday(cv) = arg
       /\ RefDayDiff(prev, cv) \in 1..7
       /\ RefWeekday(prev) = arg => RefDayDiff(prev, cv) = 7

----------------------------------------------------------------------------
(* Claims about the POSIX-TZ parser, checked under SpecPosix.               *)

\* The characters of spec from position i on are digits whose number is
\* above ds, the digits of a number of as many digits.
RECURSIVE RefAbove(_, _, _)
RefAbove(spec, i, ds) ==
  /\ ds # <<>>
  /\ \/ DigitOf(spec[i]) > ds[1]
     \/ DigitOf(spec[i]) = ds[1] /\ RefAbove(spec, i + 1, Tail(ds))

\* Position i is inside a <...> abbreviation.
RefQuoted(spec, i) ==
  \E a \in 1..(i - 1) :
    spec[a] = "<" /\ \A b \in a..i : spec[b] # ">"

\* A numeric field of spec, a maximal run of digits outside a <...>
\* abbreviation, denotes a number above INT_MAX = 2147483647.
RefOverflows(spec) ==
  \E i \in 1..Len(spec) : \E j \in i..Len(spec) :
    /\ \A k \in i..j : DigitOf(spec[k]) >= 0
    /\ DigitOf(At(spec, j + 1)) < 0
    /\ i = 1 \/ DigitOf(spec[i - 1]) < 0
    /\ ~RefQuoted(spec, i)
    /\ \E z \in i..j :
         /\ \A k \in i..(z - 1) : spec[k] = "0"
         /\ spec[z] # "0"
         /\ \/ j - z + 1 > 10
            \/ j - z + 1 = 10
                 /\ RefAbove(spec, z, <<2, 1, 4, 7, 4, 8, 3, 6, 4, 7>>)

\* spec is a specification with a second rule followed by characters that
\* cannot continue that rule.
RefLeftOver(spec) ==
  \E n \in 1..(Len(spec) - 1) :
    /\ ParsePosixSpec(SubSeq(spec, 1, n)).ok
    /\ ParsePosixSpec(SubSeq(spec, 1, n)).res.dst_end.date.fmt # "unset"
    /\ DigitOf(spec[n + 1]) < 0
    /\ spec[n + 1] \notin {"/", ":"}

\* C17: ParsePosixSpec returns false for an input that begins with ':',
\* for an input with a numeric field above INT_MAX, and for an input with
\* characters left over after the second rule.
C17_ParserRejects ==
  parsed =>
    /\ (posix_spec # <<>> /\ posix_spec[1] = ":") => ~posix.ok
    /\ RefOverflows(posix_spec) => ~posix.ok
    /\ RefLeftOver(posix_spec) => ~posix.ok

C17_Witness ==
  /\ parsed
  /\ ~posix.ok
  /\ RefLeftOver(posix_spec)
  /\ ~RefOverflows(posix_spec)
  /\ posix_spec[1] # ":"

\* The commas of the input; in the inputs tried they stand before rules only
RefCommas(spec) == {i \in 1..Len(spec) : spec[i] = ","}

\* The end of the digits that begin at p
RefDigitsEnd(spec, p) ==
  CHOOSE q \in p..(Len(spec) + 1) :
    /\ \A k \in p..(q - 1) : DigitOf(At(spec, k)) >= 0
    /\ DigitOf(At(spec, q)) < 0

\* m.w.d, each a number, begins at p
RefMonthWeekDay(spec, p) ==
  /\ RefDigitsEnd(spec, p) > p
  /\ At(spec, RefDigitsEnd(spec, p)) = "."
  /\ RefDigitsEnd(spec, RefDigitsEnd(spec, p) + 1) > RefDigitsEnd(spec, p) + 1
  /\ At(spec, RefDigitsEnd(spec, RefDigitsEnd(spec, p) + 1)) = "."
  /\ RefDigitsEnd(spec, RefDigitsEnd(spec, RefDigitsEnd(spec, p) + 1) + 1)
       > RefDigitsEnd(spec, RefDigitsEnd(spec, p) + 1) + 1

\* A complete date Jn, n or Mm.w.d begins at p
RefCompleteDate(spec, p) ==
  IF At(spec, p) = "M" THEN RefMonthWeekDay(spec, p + 1)
  ELSE IF At(spec, p) = "J" THEN RefDigitsEnd(spec, p + 1) > p + 1
  ELSE RefDigitsEnd(spec, p) > p

\* Both rules are there and each has a complete date
RefBothRules(spec) ==
  /\ Cardinality(RefCommas(spec)) = 2
  /\ \A i \in RefCommas(spec) : RefCompleteDate(spec, i + 1)

\* C30: a specification that names a daylight abbreviation is accepted only
\* when both rules are present and each is a complete Jn, n or Mm.w.d date.
C30_DstNeedsRules ==
  (parsed /\ posix.ok /\ posix.res.dst_abbr # <<>>) =>
    RefBothRules(posix_spec)

\* The part of it that the parser sees to: what follows the daylight
\* abbreviation and its offset is no, one or two rules, and a rule that
\* begins with M, J or a digit has a number there.
C30_RulesChecked ==
  (parsed /\ posix.ok /\ posix.res.dst_abbr # <<>>) =>
    /\ Cardinality(RefCommas(posix_spec)) <= 2
    /\ \A i \in RefCommas(posix_spec) :
         IF At(posix_spec, i + 1) \in {"M", "J"}
           THEN RefDigitsEnd(posix_spec, i + 2) > i + 2
           ELSE RefDigitsEnd(posix_spec, i + 1) > i + 1

\* Accepted with a daylight abbreviation and both rules complete.
C30_Witness ==
  /\ parsed
  /\ posix.ok
  /\ posix.res.dst_abbr # <<>>
  /\ RefBothRules(posix_spec)
  /\ At(posix_spec, Len(posix_spec) - 3) = "J"

----------------------------------------------------------------------------
(* Claims about Load, checked under SpecDecode and SpecTail.  The files are *)
(* judged here by their content alone.                                      *)

RefBadTypeIndex(f) ==
  \E i \in 1..Len(f.trans) : f.trans[i].type_index \notin 0..(Len(f.types) - 1)
RefBadOffset(f) ==
  \E i \in 1..Len(f.types) :
    ~(-86400 < f.types[i].utc_offset /\ f.types[i].utc_offset < 86400)
RefUnordered(f) ==
  \E i \in 1..(Len(f.trans) - 1) :
    ~(f.trans[i].unix_time < f.trans[i + 1].unix_time)

\* The header fields other than the versions are acceptable.
RefHeadFine(h, f) ==
  /\ h.magic
  /\ h.leapcnt = 0
  /\ h.ttisstdcnt \in {0, Len(f.types)}
  /\ h.ttisgmtcnt \in {0, Len(f.types)}

\* The data are acceptable: there is a type, none of the three defects, and
\* the transitions ascend by local time too.
RefDataFine(f) ==
  /\ Len(f.types) > 0
  /\ ~RefBadTypeIndex(f) /\ ~RefBadOffset(f) /\ ~RefUnordered(f)
  /\ \A i \in 1..(Len(f.trans) - 1) :
       f.trans[i].unix_time + f.types[f.trans[i].type_index + 1].utc_offset
         < f.trans[i + 1].unix_time
             + f.types[f.trans[i + 1].type_index + 1].utc_offset

\* C13: Load fails for a file in which a transition's type index is out of
\* bounds, a type's UTC offset lies outside (-86400, +86400), or the
\* transition times are not strictly increasing.
C13_DecoderRejects ==
  (zop = "Load"
     /\ (RefBadTypeIndex(tzfile) \/ RefBadOffset(tzfile)
           \/ RefUnordered(tzfile)))
    => zstate = "failed"

\* A file rejected for nothing but an offset at the limit.
C13_Witness ==
  /\ zop = "Load" /\ zstate = "failed"
  /\ RefHeadFine(tzhead, tzfile) /\ tzhead.version = 0
  /\ Len(tzfile.types) = 2 /\ Len(tzfile.trans) = 2
  /\ RefBadOffset(tzfile)
  /\ ~RefBadTypeIndex(tzfile) /\ ~RefUnordered(tzfile)

\* C14 as stated: Load fails for a file whose header version byte is 0.
C14_VersionZeroRejected ==
  (zop = "Load" /\ tzhead.version = 0) => zstate = "failed"

\* C14, amended: a file whose header version byte is 0 loads whenever its
\* header and its (4-byte) data are acceptable, with exactly the file's
\* transitions and no extension; Load fails on a version byte only when
\* the first header's is not 0 and that of the 8-byte data's header is 0.
C14_VersionZero ==
  zop = "Load" =>
    /\ (tzhead.version = 0 /\ RefHeadFine(tzhead, tzfile)
          /\ RefDataFine(tzfile))
         => /\ zstate = "loaded"
            /\ ~extended_ /\ future_ = <<>>
            /\ Len(transitions_) = Len(tzfile.trans)
            /\ transition_types_ = tzfile.types
    /\ (tzhead.version # 0 /\ tzhead.version8 = 0) => zstate = "failed"

C14_Witness ==
  /\ zop = "Load" /\ zstate = "loaded"
  /\ tzhead.version = 0
  /\ Len(transitions_) = 2

\* The footer is framed by its newlines and is not a POSIX-TZ specification.
RefMalformed(h) ==
  h.version # 0 /\ h.tail.nl /\ h.tail.closed /\ h.tail.spec \in MalformedSpecs

\* The footer is framed by its newlines and encodes a daylight-saving regime.
RefDst(h) ==
  h.version # 0 /\ h.tail.nl /\ h.tail.closed /\ h.tail.spec \in DstSpecs

\* The type of the file's last transition.
LastType == tzfile.types[tzfile.trans[Len(tzfile.trans)].type_index + 1]

\* C15: a file whose POSIX tail is malformed still loads; its transition
\* table is left unextended, and an instant at or after the last transition
\* of the file is answered with that transition's type.
C15_MalformedTail ==
  /\ (zop = "Load" /\ RefMalformed(tzhead) /\ RefHeadFine(tzhead, tzfile)
        /\ tzhead.magic8 /\ tzhead.version8 # 0 /\ RefDataFine(tzfile))
       => zstate = "loaded"
  /\ (zstate = "loaded" /\ RefMalformed(tzhead))
       => /\ ~extended_ /\ future_ = <<>>
          /\ Len(transitions_) = Len(tzfile.trans)
  /\ (zop = "BreakTime" /\ RefMalformed(tzhead) /\ Len(tzfile.trans) > 0
        /\ q_tp >= tzfile.trans[Len(tzfile.trans)].unix_time)
       => /\ bd.offset = LastType.utc_offset
          /\ bd.is_dst = LastType.is_dst
          /\ RefPoint(BdFields(bd))
               = RefPoint(Fields(1970, 1, 1, 0, 0, q_tp + LastType.utc_offset))

\* An instant after the last of two transitions, whose type differs from
\* the one before, was asked about in a zone with a malformed tail.
C15_Witness ==
  /\ zop = "BreakTime" /\ RefMalformed(tzhead)
  /\ Len(tzfile.trans) = 2
  /\ q_tp > tzfile.trans[2].unix_time
  /\ bd.offset = 3600
  /\ tzfile.types[tzfile.trans[1].type_index + 1].utc_offset = 0

\* C16 as stated: whenever the POSIX tail encodes a DST regime and the file
\* has at least two transitions, the loaded table is extended with exactly
\* 800 generated transitions.
C16_Extended800 ==
  (zstate = "loaded" /\ RefDst(tzhead) /\ Len(tzfile.trans) >= 2)
    => extended_ /\ Len(future_) = 800

\* The local date/time w, as days and seconds from 1970, lies in year y.
RefInYear(w, y) ==
  /\ RefLessEq(RefPoint(Fields(y, 1, 1, 0, 0, 0)),
               RefPoint(Fields(1970, 1, 1 + w[1], 0, 0, w[2])))
  /\ ~RefLessEq(RefPoint(Fields(y + 1, 1, 1, 0, 0, 0)),
                RefPoint(Fields(1970, 1, 1 + w[1], 0, 0, w[2])))

\* C16, amended: the loaded table is extended exactly when the tail encodes
\* a DST regime, the file has at least two transitions and the last of them
\* is not before 1970-01-01 00:00:00 UTC; it is then extended with exactly
\* 800 generated transitions, two in each of the 400 years after the year
\* of the last transition, and otherwise with none.
C16_Extension ==
  zstate = "loaded" =>
    /\ extended_ <=>
         /\ RefDst(tzhead)
         /\ Len(tzfile.trans) >= 2
         /\ tzfile.trans[Len(tzfile.trans)].unix_time >= 0
    /\ ~extended_ => future_ = <<>>
    /\ extended_ =>
         /\ Len(future_) = 800
         /\ \E y \in 1969..2001 :
              /\ RefInYear(Wide(transitions_[Len(transitions_)].date_time), y)
              /\ \A k \in 1..400 :
                   /\ RefInYear(future_[2 * k - 1].date_time, y + k)
                   /\ RefInYear(future_[2 * k].date_time, y + k)

C16_Witness ==
  /\ zstate = "loaded" /\ extended_
  /\ Len(transitions_) = 2 /\ Len(future_) = 800
  /\ zop = "BreakTime" /\ q_tp = BaseTime + 500 * SECSPERDAY
  /\ bd.is_dst


----------------------------------------------------------------------------
(* Claims about Format and Parse, checked under SpecFormat.                 *)

\* The text Format returned for fmt_tp has just been parsed in the same
\* zone with the RFC3339 format.
RefParsedBack ==
  /\ fop = "Parse"
  /\ fmt_text # <<>>
  /\ parse_format = RFC3339_full
  /\ parse_input = fmt_text

\* A time_point as whole seconds, rounded down, and the nanoseconds left.
RefFloor(tp) == IF tp[2] < 0 THEN <<tp[1] - 1, tp[2] + 1000000000>> ELSE tp

\* The UTC offset in force in the file's zone at the second sec: that of the
\* last transition not after it, or that of the default type.
RefPast(sec) ==
  {i \in 1..Len(tzfile.trans) : tzfile.trans[i].unix_time <= sec}
RefOffsetAt(sec) ==
  IF RefPast(sec) = {}
    THEN tzfile.types[default_transition_type_ + 1].utc_offset
    ELSE tzfile.types[
           tzfile.trans[CHOOSE i \in RefPast(sec) :
                          \A j \in RefPast(sec) : j <= i].type_index + 1
         ].utc_offset

\* The seconds of an offset that a rendering in hours and minutes drops.
RefDropped(offset) ==
  IF offset >= 0 THEN offset % 60 ELSE -((-offset) % 60)

\* C19 (as stated): for every instant t and zone Z, parsing the text that
\* Format produced for t with %Y-%m-%dT%H:%M:%E*S%Ez succeeds and returns
\* exactly t.
C19_RoundTrip ==
  RefParsedBack => (parse_ok /\ tpp = fmt_tp)

\* C19 (amended): parsing the text that Format produced for t with
\* %Y-%m-%dT%H:%M:%E*S%Ez succeeds; it returns exactly t when the zone's
\* UTC offset at t is a whole number of minutes, and otherwise t moved by
\* the seconds of the offset, which %Ez does not render.
C19_RoundTripWholeMinutes ==
  RefParsedBack =>
    /\ parse_ok
    /\ RefFloor(tpp) =
         <<RefFloor(fmt_tp)[1]
             + RefDropped(RefOffsetAt(RefFloor(fmt_tp)[1])),
           RefFloor(fmt_tp)[2]>>
    /\ (RefOffsetAt(RefFloor(fmt_tp)[1]) % 60 = 0 => tpp = fmt_tp)

\* An instant a fraction of a second before a whole second before 1970, in
\* a zone with transitions and a whole-minute offset, came back exactly.
C19_Witness ==
  /\ RefParsedBack
  /\ parse_ok
  /\ fmt_tp[1] < 0
  /\ fmt_tp[2] < 0
  /\ Len(transitions_) > 0
  /\ RefOffsetAt(RefFloor(fmt_tp)[1]) # 0
  /\ RefOffsetAt(RefFloor(fmt_tp)[1]) % 60 = 0
  /\ tpp = fmt_tp
  /\ tpp # tpp_before

\* C20: when Parse returns false, the caller's time_point is what it was
\* before the call.
C20_FailureLeavesOutput ==
  (fop = "Parse" /\ ~parse_ok) => tpp = tpp_before

\* Parse failed on a text that Format returned, followed by one more
\* character, while the caller's time_point held an instant other than
\* the epoch.
C20_Witness ==
  /\ fop = "Parse"
  /\ ~parse_ok
  /\ parse_format = RFC3339_full
  /\ fmt_text # <<>>
  /\ parse_input = fmt_text \o <<"x">>
  /\ tpp_before # <<0, 0>>
  /\ tpp = tpp_before

====
